---- MODULE Spec2Model ----
(***************************************************************************)
(* Infiya AI pipeline: the conversational orchestrator                      *)
(* (internal/services/orchestrator: ExecuteWorkflow, the stage functions,   *)
(* CancelWorkflow, GetWorkflowStatus), the workflow context                 *)
(* (internal/models/workflow.go) and the Redis gateway                      *)
(* (internal/services/redis_service.go).                                    *)
(*                                                                          *)
(* One execution of ExecuteWorkflow is a process e; its request id is e     *)
(* (request ids are fresh per execution, numbered in submission order).     *)
(* Every stage function is one action: the result of each outbound call is  *)
(* chosen nondeterministically, a failed call consuming one unit of the     *)
(* fault budget.  Progress values are integers in units of 1/Scale.         *)
(***************************************************************************)
EXTENDS Integers, Sequences, FiniteSets, TLC

\* ---------------------------------------------------------------- bounds
MaxExecutions == 2
MaxInFlight == 2
MaxFaults == 1
MaxItems == 1

Execs == 1..MaxExecutions
WorkflowIdList == << "w1", "w2" >>
WorkflowIds == {WorkflowIdList[i] : i \in DOMAIN WorkflowIdList}
Users == {"u1"}
Queries == {"news", "follow", "chat"}

\* absent values: Nil for a record, NoExec for an execution, Unset for a list
Nil == [nil |-> TRUE]
NoExec == 0
Unset == -1
NotFound == [found |-> FALSE, status |-> "not_found", req |-> NoExec,
             endSet |-> FALSE]

\* ------------------------------------------------------- program tables
newsWorkflowAgents ==
  << "memory", "classifier", "query_enhancer", "keyword_extractor",
     "news_fetch", "youtube_video_fetch", "embedding_generation",
     "vector_storage", "relevancy_agent", "scrapper", "summarizer",
     "persona" >>

chitchatWorkflowAgents == << "memory", "classifier", "chitchat" >>

followUpWorkflowAgents == << "memory", "classifier", "chitchat" >>

IntentNewNewsQuery == "NEW_NEWS_QUERY"
IntentFollowUpDiscussion == "FOLLOW_UP_DISCUSSION"
IntentChitChat == "CHITCHAT"

\* progress p stands for the fraction p / Scale
Scale == 2 * Len(newsWorkflowAgents)

getAgentSequence(workflowType) ==
  CASE workflowType = IntentNewNewsQuery -> newsWorkflowAgents
    [] workflowType = IntentFollowUpDiscussion -> followUpWorkflowAgents
    [] workflowType = IntentChitChat -> chitchatWorkflowAgents
    [] OTHER -> << >>

getTotalAgents(workflowType) == Len(getAgentSequence(workflowType))

\* 0-based index of the first occurrence of agentName, -1 when absent
AgentIndex(agents, agentName) ==
  IF \E i \in 1..Len(agents) : agents[i] = agentName
  THEN (CHOOSE i \in 1..Len(agents) :
          /\ agents[i] = agentName
          /\ \A j \in 1..(i - 1) : agents[j] # agentName) - 1
  ELSE -1

calculateAgentProgress(workflowType, agentName, status) ==
  LET agents == getAgentSequence(workflowType)
      agentIndex == AgentIndex(agents, agentName)
      totalAgents == Len(agents)
  IN IF totalAgents = 0 \/ agentIndex = -1 THEN 0
     ELSE CASE status = "processing" ->
                 (agentIndex * Scale) \div totalAgents
                   + (Scale \div (2 * totalAgents))
            [] status = "completed" ->
                 ((agentIndex + 1) * Scale) \div totalAgents
            [] OTHER -> (agentIndex * Scale) \div totalAgents

\* ----------------------------------------------------------------- state
VARIABLES
  pc,              \* pc[e]: position of execution e in ExecuteWorkflow
  req,             \* req[e]: the WorkflowRequest of execution e
  wctx,            \* wctx[e]: the WorkflowContext built by execution e
  intentResult,    \* intentResult[e]: the classifier's IntentClassificationResult
  response,        \* response[e]: the WorkflowResponse returned
  activeWorkflows, \* Orchestrator.activeWorkflows: workflow id -> execution
  stateStore,      \* Redis "workflow:<id>:state"
  convStore,       \* Redis "user:<id>:conversation_context"
  stream,          \* Redis stream "user:<id>:agent_updates", by request id
  faults,          \* failures of outbound calls still allowed
  quota,           \* submissions the clients still make
  cancelled,       \* executions whose context CancelWorkflow marked failed
  exchangesBefore, \* persisted exchange count when execution e was submitted
  failedCalls,     \* failedCalls[e]: the service calls of e that returned an
                   \* error (each is logged by its caller)
  err,             \* err[e]: the error the pipeline of e returned ("" for nil)
  stageIn,         \* the arguments of one stage function applied on its own
  stageOut,        \* what that stage function left (Nil before it ran)
  fanStage,        \* the fan-out the news retrieval functions have reached
  fanPc,           \* position of the calling goroutine in that fan-out
  wg,              \* the counter of the fan-out's sync.WaitGroup
  child,           \* child[s][c]: state of child goroutine c of fan-out s
  fanVideos,       \* whether the fan-outs have fresh videos with embeddings
  closePc,         \* position of the goroutine that called Close
  reqPc,           \* reqPc[r]: position of call r of makeEmbeddingRequest
  semaphore,       \* the tokens in OllamaService.semaphore
  ctxDone,         \* whether the context of the calls is cancelled
  maxRetries,      \* config.MaxRetries of the embedding service
  embedItem,       \* embedItem[i]: the goroutine embedding text i of a batch
  scrape           \* one call of ScrapeMultipleURLs: its goroutines and
                   \* its result

\* the variables of a stage function applied on its own, and of the fan-outs
stageVars == << stageIn, stageOut >>

fanVars == << fanStage, fanPc, wg, child, fanVideos >>

\* the variables of the embedding requests
embedVars == << reqPc, semaphore, ctxDone >>

\* the variables of the orchestrator's shutdown and of the services
\* the variables of a batch of embeddings
retryVars == << maxRetries, embedItem >>

auxVars == << closePc, embedVars, retryVars, scrape >>

vars == << pc, req, wctx, intentResult, response, activeWorkflows, stateStore,
           convStore, stream, faults, quota, cancelled, exchangesBefore,
           failedCalls, err, stageVars, fanVars, auxVars >>

\* -------------------------------------------------------- workflow context
NewConversationContext(userID) == [userID |-> userID, exchanges |-> << >>]

NewWorkflowContext(r, requestID) ==
  [ id |-> r.wid, userID |-> r.uid, requestID |-> requestID,
    status |-> "pending", endSet |-> FALSE,
    intent |-> "", isFollowUp |-> FALSE, referencedTopic |-> FALSE,
    enhancedQuery |-> FALSE, keywords |-> 0,
    articles |-> 0, videos |-> 0,
    freshArticles |-> Unset, freshVideos |-> Unset,
    queryEmbeddings |-> FALSE, articleEmbeddings |-> Unset,
    videoEmbeddings |-> Unset,
    summary |-> FALSE, response |-> "",
    conversation |-> NewConversationContext(r.uid) ]

MarkCompleted(wc) == [wc EXCEPT !.status = "completed", !.endSet = TRUE]

\* faulty variant of MarkFailed: the end-time assignment of line 251 missing
MarkFailed_NoEndTime(wc) == [wc EXCEPT !.status = "failed"]

MarkFailed(wc) == [wc EXCEPT !.status = "failed", !.endSet = TRUE]

SetIntent(wc, intent) == [wc EXCEPT !.intent = intent]

\* referencedTopic: whether the topic given is a non-empty string
MarkAsFollowUp(wc, referencedTopic) ==
  [wc EXCEPT !.isFollowUp = TRUE, !.referencedTopic = referencedTopic]

AddExchange(cc, requestID, userQuery) ==
  [cc EXCEPT !.exchanges = Append(@, [id |-> requestID, query |-> userQuery])]

\* ------------------------------------------------------------ Redis gateway
\* the JSON snapshot StoreWorkflowState writes
Snapshot(wc) ==
  [found |-> TRUE, status |-> wc.status, req |-> wc.requestID,
   endSet |-> wc.endSet]

Event(wc, agentName, status, progress) ==
  [ type |-> "agent_update", wf |-> wc.id, req |-> wc.requestID,
    agent |-> agentName, status |-> status, progress |-> progress ]

\* XAdd on the user's stream; a failed call appends nothing.  The stream is
\* kept as one subsequence per request id: the entries of a request in
\* stream order (the order between entries of different requests is not
\* recorded)
PublishAgentUpdate(s, userID, update, ok) ==
  IF ok THEN [s EXCEPT ![userID][update.req] = Append(@, update)] ELSE s

\* WorkflowExecutor.publishAgentUpdate builds the update of one stage
AgentUpdate(wc, agentName, status) ==
  Event(wc, agentName, status,
        calculateAgentProgress(wc.intent, agentName, status))

\* Orchestrator.publishWorkflowUpdate builds the envelope update
WorkflowUpdate(wc, updateType) == Event(wc, updateType, "completed", Scale)

\* publishes the updates of us in order; oks[i] is the result of the i-th call
RECURSIVE PublishAll(_, _, _, _)
PublishAll(s, userID, us, oks) ==
  IF us = << >> THEN s
  ELSE PublishAll(PublishAgentUpdate(s, userID, Head(us), Head(oks)),
                  userID, Tail(us), Tail(oks))

\* results of n outbound calls within the remaining fault budget
Failures(oks) == Cardinality({i \in DOMAIN oks : ~oks[i]})
Results(n) == {oks \in [1..n -> BOOLEAN] : Failures(oks) <= faults}

\* the calls among names (names[i] the service call behind oks[i], "" for a
\* publish) that returned an error
FailedCalls(oks, names) ==
  {names[i] : i \in {j \in DOMAIN names : names[j] # "" /\ ~oks[j]}}

GetConversationContext(userID, ok) ==
  IF ok THEN convStore[userID] ELSE Nil

\* ------------------------------------------------------------------- Init
\* a conversation persisted by an earlier run of the service: one exchange
Prior(u) ==
  [userID |-> u, exchanges |-> << [id |-> NoExec, query |-> "chat"] >>]

\* the calls of makeEmbeddingRequest the service gets
MaxRequests == 6

\* the capacity of OllamaService.semaphore
SemaphoreSize == 5

Requests == 1..MaxRequests

\* no embedding request was made: the semaphore is empty
EmbedIdle ==
  /\ reqPc = [r \in Requests |-> "idle"]
  /\ semaphore = 0
  /\ ctxDone = FALSE

\* the texts of a batch of embeddings
MaxTexts == 2

\* the largest configured number of attempts
MaxAttempts == 3

Texts == 1..MaxTexts

\* no batch of embeddings was called
RetryIdle ==
  /\ maxRetries = 0
  /\ embedItem = [i \in Texts |->
                    [pc |-> "idle", attempt |-> 0, requests |-> 0,
                     successes |-> 0, failures |-> 0, waits |-> << >>]]

\* the URLs of a batch scrape
MaxURLs == 4

URLs == 1..MaxURLs

\* ScrapeMultipleURLs was not called
ScrapeIdle ==
  scrape = [pc |-> [u \in URLs |-> "idle"], concurrency |-> 0, tokens |-> 0,
            successful |-> {}, failed |-> {}, returned |-> FALSE]

\* no execution submitted
Idle ==
  /\ pc = [e \in Execs |-> "idle"]
  /\ req = [e \in Execs |-> Nil]
  /\ wctx = [e \in Execs |-> Nil]
  /\ intentResult = [e \in Execs |-> Nil]
  /\ response = [e \in Execs |-> Nil]
  /\ activeWorkflows = [w \in WorkflowIds |-> NoExec]
  /\ stateStore = [w \in WorkflowIds |-> NotFound]
  /\ stream = [u \in Users |-> [e \in Execs |-> << >>]]
  /\ cancelled = {}
  /\ exchangesBefore = [e \in Execs |-> 0]
  /\ failedCalls = [e \in Execs |-> {}]
  /\ err = [e \in Execs |-> ""]
  /\ closePc = "open"
  /\ EmbedIdle
  /\ RetryIdle
  /\ ScrapeIdle

\* no stage function is applied on its own
StageIdle == stageIn = Nil /\ stageOut = Nil

\* the fan-outs of news retrieval: the retrieval of articles and videos, the
\* two vector-store writes, the two semantic searches, the two LLM rankings
FanOuts == << "fetch", "store", "search", "rank" >>

Children == {"articles", "videos"}

\* no fan-out has started
FanIdle ==
  /\ fanStage = 0
  /\ fanPc = "idle"
  /\ wg = 0
  /\ child = [s \in DOMAIN FanOuts |-> [c \in Children |-> "none"]]
  /\ fanVideos = FALSE

\* one submission by a user with a persisted conversation; outbound calls
\* may fail
Init ==
  /\ Idle
  /\ StageIdle
  /\ FanIdle
  /\ convStore = [u \in Users |-> Prior(u)]
  /\ quota = 1
  /\ faults = MaxFaults

\* several submissions by a user without a persisted conversation; every
\* outbound call succeeds
InitPair ==
  /\ Idle
  /\ StageIdle
  /\ FanIdle
  /\ convStore = [u \in Users |-> Nil]
  /\ quota = MaxExecutions
  /\ faults = 0

Running(e) == pc[e] \notin {"idle", "done"}

PersistedExchanges(u) ==
  IF convStore[u] = Nil THEN << >> ELSE convStore[u].exchanges

\* ------------------------------------------------------- ExecuteWorkflow
\* executions that have entered ExecuteWorkflow and not returned
InFlight == {f \in Execs : Running(f)}

UsedIds == {req[f].wid : f \in {g \in Execs : pc[g] # "idle"}}

\* workflow ids are taken in order of first use
FreshId(w) ==
  \E i \in DOMAIN WorkflowIdList :
     /\ WorkflowIdList[i] = w
     /\ w \notin UsedIds
     /\ \A j \in 1..(i - 1) : WorkflowIdList[j] \in UsedIds

\* the submissions explored: request ids in submission order, at most
\* MaxInFlight executions at a time; a run of several submissions submits
\* chitchat queries, a news or follow-up query is the one submission of its
\* run
MaySubmit(e, w, q) ==
  /\ quota > 0
  /\ pc[e] = "idle"
  /\ \A f \in Execs : f < e => pc[f] # "idle"
  /\ Cardinality(InFlight) < MaxInFlight
  /\ w \in UsedIds \/ FreshId(w)
  /\ \A f \in Execs : pc[f] # "idle" => (q = "chat" /\ req[f].query = "chat")

\* lines 110-118: build the context and register it
ExecuteWorkflow_Begin(e, w, u, q) ==
  /\ MaySubmit(e, w, q)
  /\ quota' = quota - 1
  /\ req' = [req EXCEPT ![e] = [wid |-> w, uid |-> u, query |-> q]]
  /\ wctx' = [wctx EXCEPT ![e] = NewWorkflowContext(req'[e], e)]
  /\ activeWorkflows' = [activeWorkflows EXCEPT ![w] = e]
  /\ exchangesBefore' =
       [exchangesBefore EXCEPT ![e] = Len(PersistedExchanges(u))]
  /\ pc' = [pc EXCEPT ![e] = "start"]
  /\ UNCHANGED << intentResult, response, stateStore, convStore, stream,
                  faults, cancelled, failedCalls, err,
                  stageVars, fanVars, auxVars >>

\* lines 120-126: store the initial state, publish workflow_started
ExecuteWorkflow_Start(e) ==
  /\ pc[e] = "start"
  /\ \E oks \in Results(2) :
       /\ stateStore' = IF oks[1]
                        THEN [stateStore EXCEPT ![req[e].wid] = Snapshot(wctx[e])]
                        ELSE stateStore
       /\ stream' = PublishAgentUpdate(stream, req[e].uid,
                       WorkflowUpdate(wctx[e], "workflow_started"), oks[2])
       /\ faults' = faults - Failures(oks)
       /\ failedCalls' = [failedCalls EXCEPT ![e] = @ \cup FailedCalls(oks, << "StoreWorkflowState", "" >>)]
  /\ pc' = [pc EXCEPT ![e] = "dispatch"]
  /\ UNCHANGED << req, wctx, intentResult, response, activeWorkflows,
                  convStore, quota, cancelled, exchangesBefore, err,
                  stageVars, fanVars, auxVars >>

\* lines 134-140: the switch on the context's status
ExecuteWorkflow_Dispatch(e) ==
  /\ pc[e] = "dispatch"
  /\ pc' = [pc EXCEPT ![e] = IF wctx[e].status = "pending"
                             THEN "memory" ELSE "failed"]
  /\ err' = [err EXCEPT ![e] = IF wctx[e].status = "pending"
                               THEN @ ELSE "invalid_status"]
  /\ UNCHANGED << req, wctx, intentResult, response, activeWorkflows,
                  stateStore, convStore, stream, faults, quota, cancelled,
                  exchangesBefore, failedCalls,
                  stageVars, fanVars, auxVars >>

\* faulty variant of ExecuteWorkflow_Fail: the error branch publishes
\* workflow_error and, its return missing, falls through to the success path
ExecuteWorkflow_Fail_NoReturn(e) ==
  /\ pc[e] = "failed"
  /\ \E oks \in Results(1) :
       /\ stream' = PublishAgentUpdate(stream, req[e].uid,
                       WorkflowUpdate(MarkFailed(wctx[e]), "workflow_error"),
                       oks[1])
       /\ faults' = faults - Failures(oks)
  /\ wctx' = [wctx EXCEPT ![e] = MarkFailed(@)]
  /\ pc' = [pc EXCEPT ![e] = "succeeded"]
  /\ UNCHANGED << req, intentResult, response, activeWorkflows, stateStore,
                  convStore, cancelled, exchangesBefore, quota, failedCalls, err,
                  stageVars, fanVars, auxVars >>

\* lines 142-152: the pipeline returned an error
ExecuteWorkflow_Fail(e) ==
  /\ pc[e] = "failed"
  /\ \E oks \in Results(1) :
       /\ stream' = PublishAgentUpdate(stream, req[e].uid,
                       WorkflowUpdate(MarkFailed(wctx[e]), "workflow_error"),
                       oks[1])
       /\ faults' = faults - Failures(oks)
  /\ wctx' = [wctx EXCEPT ![e] = MarkFailed(@)]
  /\ response' = [response EXCEPT ![e] =
                    [status |-> "failed", error |-> err[e]]]
  /\ activeWorkflows' = [activeWorkflows EXCEPT ![req[e].wid] = NoExec]
  /\ pc' = [pc EXCEPT ![e] = "done"]
  /\ UNCHANGED << req, intentResult, stateStore, convStore, cancelled,
                  exchangesBefore, quota, failedCalls, err,
                  stageVars, fanVars, auxVars >>

\* lines 400-422: append the exchange to the snapshot and write it back
storeConversationExchange(e) ==
  /\ pc[e] = "succeeded"
  /\ \E oks \in Results(1) :
       LET cc == AddExchange(wctx[e].conversation, e, req[e].query)
       IN /\ wctx' = [wctx EXCEPT ![e].conversation = cc]
          /\ convStore' = IF oks[1]
                          THEN [convStore EXCEPT ![cc.userID] = cc]
                          ELSE convStore
          /\ faults' = faults - Failures(oks)
          /\ failedCalls' = [failedCalls EXCEPT ![e] = @ \cup FailedCalls(oks, << "UpdateConversationContext" >>)]
  /\ pc' = [pc EXCEPT ![e] = "completing"]
  /\ UNCHANGED << req, intentResult, response, activeWorkflows, stateStore,
                  stream, quota, cancelled, exchangesBefore, err,
                  stageVars, fanVars, auxVars >>

\* faulty variant of ExecuteWorkflow_Complete: the deferred Delete of
\* line 118 is missing, the registry entry stays
ExecuteWorkflow_Complete_NoDelete(e) ==
  /\ pc[e] = "completing"
  /\ \E oks \in Results(2) :
       LET wc == MarkCompleted(wctx[e])
       IN /\ wctx' = [wctx EXCEPT ![e] = wc]
          /\ stateStore' = IF oks[1]
                           THEN [stateStore EXCEPT ![wc.id] = Snapshot(wc)]
                           ELSE stateStore
          /\ stream' = PublishAgentUpdate(stream, wc.userID,
                          WorkflowUpdate(wc, "workflow_completed"), oks[2])
          /\ faults' = faults - Failures(oks)
          /\ failedCalls' = [failedCalls EXCEPT ![e] = @ \cup FailedCalls(oks, << "StoreWorkflowState", "" >>)]
  /\ response' = [response EXCEPT ![e] =
                    [status |-> "completed", error |-> ""]]
  /\ pc' = [pc EXCEPT ![e] = "done"]
  /\ UNCHANGED << req, intentResult, activeWorkflows, convStore, quota,
                  cancelled, exchangesBefore, err,
                  stageVars, fanVars, auxVars >>

\* lines 160-186: seal, store the final state, publish workflow_completed
ExecuteWorkflow_Complete(e) ==
  /\ pc[e] = "completing"
  /\ \E oks \in Results(2) :
       LET wc == MarkCompleted(wctx[e])
       IN /\ wctx' = [wctx EXCEPT ![e] = wc]
          /\ stateStore' = IF oks[1]
                           THEN [stateStore EXCEPT ![wc.id] = Snapshot(wc)]
                           ELSE stateStore
          /\ stream' = PublishAgentUpdate(stream, wc.userID,
                          WorkflowUpdate(wc, "workflow_completed"), oks[2])
          /\ faults' = faults - Failures(oks)
          /\ failedCalls' = [failedCalls EXCEPT ![e] = @ \cup FailedCalls(oks, << "StoreWorkflowState", "" >>)]
  /\ response' = [response EXCEPT ![e] =
                    [status |-> "completed", error |-> ""]]
  /\ activeWorkflows' = [activeWorkflows EXCEPT ![req[e].wid] = NoExec]
  /\ pc' = [pc EXCEPT ![e] = "done"]
  /\ UNCHANGED << req, intentResult, convStore, quota, cancelled,
                  exchangesBefore, err,
                  stageVars, fanVars, auxVars >>

\* ------------------------------------------ executeConversationalPipeline
\* lines 222-273: the memory stage; a failed or empty read gives a new context
executeEnhancedMemoryAgent(e) ==
  /\ pc[e] = "memory"
  /\ \E oks \in Results(3) :
       LET wc == wctx[e]
           loaded == GetConversationContext(wc.userID, oks[2])
           cc == IF loaded = Nil THEN NewConversationContext(wc.userID)
                 ELSE loaded
       IN /\ wctx' = [wctx EXCEPT ![e].conversation = cc]
          /\ stream' = PublishAll(stream, wc.userID,
                         << AgentUpdate(wc, "memory", "processing"),
                            AgentUpdate(wc, "memory", "completed") >>,
                         << oks[1], oks[3] >>)
          /\ faults' = faults - Failures(oks)
          /\ failedCalls' = [failedCalls EXCEPT ![e] = @ \cup FailedCalls(oks, << "", "GetConversationContext", "" >>)]
  /\ pc' = [pc EXCEPT ![e] = "classifier"]
  /\ UNCHANGED << req, intentResult, response, activeWorkflows, stateStore,
                  convStore, quota, cancelled, exchangesBefore, err,
                  stageVars, fanVars, auxVars >>

\* ClassifyIntentWithContext / parseEnhancedIntentResponse: the intent tag
\* of the enhanced classification of a query
EnhancedIntent(q) ==
  CASE q = "news" -> IntentNewNewsQuery
    [] q = "follow" -> IntentFollowUpDiscussion
    [] OTHER -> IntentChitChat

\* ClassifyIntent / parseIntentResponse: the tags of the simple classifier
SimpleIntents(q) == IF q = "news" THEN {"news"} ELSE {"chit_chat", "chitchat"}

\* the classifier results an execution can get: enhanced call ok; enhanced
\* failed and simple ok; both failed (oks[1] enhanced, oks[2] simple)
ClassifierResults(q, oks) ==
  IF oks[1]
  THEN { [intent |-> EnhancedIntent(q), enhancedQuery |-> eq,
          referencedTopic |-> rt] :
           eq \in (IF q = "news" THEN BOOLEAN ELSE {FALSE}),
           rt \in (IF q = "follow" THEN BOOLEAN ELSE {FALSE}) }
  ELSE { [intent |-> i, enhancedQuery |-> FALSE, referencedTopic |-> FALSE] :
           i \in (IF oks[2] THEN SimpleIntents(q) ELSE {IntentChitChat}) }

\* lines 203-218: the switch of executeConversationalPipeline
Route(intent) ==
  CASE intent = IntentNewNewsQuery -> "query_enhancer"
    [] intent = IntentFollowUpDiscussion -> "followup"
    [] OTHER -> "chitchat"

\* lines 276-347, then the switch on the intent
executeEnhancedIntentClassifier(e) ==
  /\ pc[e] = "classifier"
  /\ \E oks \in Results(4) :
       /\ oks[2] => oks[3]
       /\ \E r \in ClassifierResults(req[e].query, << oks[2], oks[3] >>) :
            LET wc0 == wctx[e]
                wc1 == SetIntent(wc0, r.intent)
                wc2 == IF r.intent = IntentFollowUpDiscussion
                       THEN MarkAsFollowUp(wc1, r.referencedTopic) ELSE wc1
                wc3 == [wc2 EXCEPT !.enhancedQuery = r.enhancedQuery]
                wc4 == IF r.intent \in {IntentNewNewsQuery,
                                        IntentFollowUpDiscussion,
                                        IntentChitChat}
                       THEN wc3 ELSE SetIntent(wc3, IntentChitChat)
            IN /\ intentResult' = [intentResult EXCEPT ![e] = r]
               /\ wctx' = [wctx EXCEPT ![e] = wc4]
               /\ stream' = PublishAll(stream, wc0.userID,
                              << AgentUpdate(wc0, "classifier", "processing"),
                                 AgentUpdate(wc3, "classifier", "completed") >>,
                              << oks[1], oks[4] >>)
               /\ pc' = [pc EXCEPT ![e] = Route(r.intent)]
       /\ faults' = faults - Failures(oks)
       /\ failedCalls' =
            [failedCalls EXCEPT ![e] = @ \cup
               FailedCalls(oks, << "", "ClassifyIntentWithContext",
                                   IF oks[2] THEN "" ELSE "ClassifyIntent",
                                   "" >>)]
  /\ UNCHANGED << req, response, activeWorkflows, stateStore, convStore,
                  quota, cancelled, exchangesBefore, err,
                  stageVars, fanVars, auxVars >>

\* a responder stage: processing event, one LLM call, completed event on
\* success; on failure the function returns the error (oks[2] the LLM call,
\* named call; failure the error returned)
Responder(e, agentName, call, failure, oks) ==
  LET wc == wctx[e]
  IN /\ ~oks[2] => oks[3]
     /\ wctx' = [wctx EXCEPT ![e].response = IF oks[2] THEN "resp" ELSE @]
     /\ stream' = PublishAll(stream, wc.userID,
                    IF oks[2]
                    THEN << AgentUpdate(wc, agentName, "processing"),
                            AgentUpdate(wc, agentName, "completed") >>
                    ELSE << AgentUpdate(wc, agentName, "processing") >>,
                    << oks[1], oks[3] >>)
     /\ faults' = faults - Failures(oks)
     /\ failedCalls' = [failedCalls EXCEPT ![e] =
                          @ \cup FailedCalls(oks, << "", call, "" >>)]
     /\ err' = [err EXCEPT ![e] = IF oks[2] THEN @ ELSE failure]
     /\ pc' = [pc EXCEPT ![e] = IF oks[2] THEN "succeeded" ELSE "failed"]

\* lines 349-357 and 552-599: the follow-up branch
generateContextualResponse(e) ==
  /\ pc[e] = "followup"
  /\ \E oks \in Results(3) :
       Responder(e, "chitchat", "GenerateContextualResponse",
                 "contextual_response", oks)
  /\ UNCHANGED << req, intentResult, response, activeWorkflows, stateStore,
                  convStore, quota, cancelled, exchangesBefore,
                  stageVars, fanVars, auxVars >>

\* lines 360-368 and 816-855: the chitchat branch
generateChitChatResponse(e) ==
  /\ pc[e] = "chitchat"
  /\ \E oks \in Results(3) :
       Responder(e, "chitchat", "GenerateChitChatResponse",
                 "chitchat_response", oks)
  /\ UNCHANGED << req, intentResult, response, activeWorkflows, stateStore,
                  convStore, quota, cancelled, exchangesBefore,
                  stageVars, fanVars, auxVars >>

\* ------------------------------------------------------ executeNewsWorkflow
Counts == 0..MaxItems

\* the result sizes of a search or an extraction: the code branches on an
\* empty result only, so the results explored are the empty and the full one
Sizes == {0, MaxItems}

Min(a, b) == IF a < b THEN a ELSE b

\* lines 602-644: query enhancement; its error is logged by the caller
\* (oks: processing event, EnhanceQueryForSearch, completed event)
enhanceQueryWithContext(e) ==
  /\ pc[e] = "query_enhancer"
  /\ \E oks \in Results(3), enhanced \in BOOLEAN :
       LET wc == wctx[e]
           wc1 == IF oks[2] /\ enhanced
                  THEN [wc EXCEPT !.enhancedQuery = TRUE] ELSE wc
       IN /\ ~oks[2] => (oks[3] /\ ~enhanced)
          /\ wctx' = [wctx EXCEPT ![e] = wc1]
          /\ stream' = PublishAll(stream, wc.userID,
                         IF oks[2]
                         THEN << AgentUpdate(wc, "query_enhancer", "processing"),
                                 AgentUpdate(wc1, "query_enhancer", "completed") >>
                         ELSE << AgentUpdate(wc, "query_enhancer", "processing") >>,
                         << oks[1], oks[3] >>)
          /\ faults' = faults - Failures(oks)
          /\ failedCalls' = [failedCalls EXCEPT ![e] =
               @ \cup FailedCalls(oks, << "", "EnhanceQueryForSearch", "" >>)]
  /\ pc' = [pc EXCEPT ![e] = "keyword_extractor"]
  /\ UNCHANGED << req, intentResult, response, activeWorkflows, stateStore,
                  convStore, quota, cancelled, exchangesBefore, err,
                  stageVars, fanVars, auxVars >>

\* lines 647-685: keyword extraction; its error fails the pipeline
\* (oks: processing event, ExtractKeyWords, completed event)
extractKeywordsFromEnhancedQuery(e) ==
  /\ pc[e] = "keyword_extractor"
  /\ \E oks \in Results(3), k \in Sizes :
       LET wc == wctx[e]
           wc1 == [wc EXCEPT !.keywords = k]
       IN /\ ~oks[2] => (oks[3] /\ k = 0)
          /\ wctx' = [wctx EXCEPT ![e] = wc1]
          /\ stream' = PublishAll(stream, wc.userID,
                         IF oks[2]
                         THEN << AgentUpdate(wc, "keyword_extractor", "processing"),
                                 AgentUpdate(wc1, "keyword_extractor", "completed") >>
                         ELSE << AgentUpdate(wc, "keyword_extractor", "processing") >>,
                         << oks[1], oks[3] >>)
          /\ faults' = faults - Failures(oks)
          /\ failedCalls' = [failedCalls EXCEPT ![e] =
               @ \cup FailedCalls(oks, << "", "ExtractKeyWords", "" >>)]
          /\ err' = [err EXCEPT ![e] = IF oks[2] THEN @ ELSE "keyword_extraction"]
          /\ pc' = [pc EXCEPT ![e] = IF oks[2] THEN "news_fetch" ELSE "failed"]
  /\ UNCHANGED << req, intentResult, response, activeWorkflows, stateStore,
                  convStore, quota, cancelled, exchangesBefore,
                  stageVars, fanVars, auxVars >>

\* lines 1050-1105: the updates of enhanceVideosWithTranscripts, emitted by
\* the video goroutine when it has videos
VideoEnhancerUpdates(wc, videos) ==
  IF videos = 0 THEN << >>
  ELSE << AgentUpdate(wc, "video_enchancer", "processing"),
          AgentUpdate(wc, "video_enhancer", "completed") >>

\* lines 941-1048: the retrieval fan-out and its join.
\* oks: 1 processing event, 2 SearchByKeywords, 3 SearchRecentNews,
\*      4 SearchNewsVideos, 5 SearchVideosByQuery, 6 and 7 the two
\*      video-enhancer events, 8 completed event, 9 GetVideoTranscript
\*      (its error gives the video fallback content)
fetchArticlesAndVideos(e) ==
  /\ pc[e] = "news_fetch"
  /\ \E oks \in Results(9), a1 \in Sizes, a2 \in Sizes,
        v1 \in Sizes, v2 \in Sizes :
       LET wc == wctx[e]
           kw == wc.keywords > 0
           recent == a1 = 0
           freshArticles == IF recent THEN a2 ELSE a1
           articleErr == recent /\ ~oks[3]
           byQuery == v1 = 0
           freshVideos == IF byQuery THEN v2 ELSE v1
           failed == articleErr /\ freshArticles = 0
           wc1 == [wc EXCEPT !.articles = freshArticles,
                             !.videos = freshVideos,
                             !.freshArticles = freshArticles,
                             !.freshVideos = freshVideos]
       IN /\ ~kw => (oks[2] /\ oks[4])
          /\ (~kw \/ ~oks[2]) => a1 = 0
          /\ ~recent => oks[3]
          /\ (~recent \/ ~oks[3]) => a2 = 0
          /\ (~kw \/ ~oks[4]) => v1 = 0
          /\ ~byQuery => oks[5]
          /\ (~byQuery \/ ~oks[5]) => v2 = 0
          /\ freshVideos = 0 => (oks[6] /\ oks[7] /\ oks[9])
          /\ failed => oks[8]
          /\ wctx' = [wctx EXCEPT ![e] = IF failed THEN wc ELSE wc1]
          /\ stream' = PublishAll(stream, wc.userID,
                         << AgentUpdate(wc, "news_fetch", "processing") >>
                           \o VideoEnhancerUpdates(wc, freshVideos)
                           \o (IF failed THEN << >>
                               ELSE << AgentUpdate(wc1, "news_fetch", "completed") >>),
                         << oks[1] >>
                           \o (IF freshVideos = 0 THEN << >>
                               ELSE << oks[6], oks[7] >>)
                           \o << oks[8] >>)
          /\ faults' = faults - Failures(oks)
          /\ failedCalls' = [failedCalls EXCEPT ![e] =
               @ \cup FailedCalls(oks, << "", "SearchByKeywords", "SearchRecentNews",
                     "SearchNewsVideos", "SearchVideosByQuery", "", "", "",
                     "GetVideoTranscript" >>)]
          /\ err' = [err EXCEPT ![e] = IF failed THEN "news_search" ELSE @]
          /\ pc' = [pc EXCEPT ![e] = IF failed THEN "failed" ELSE "embedding"]
  /\ UNCHANGED << req, intentResult, response, activeWorkflows, stateStore,
                  convStore, quota, cancelled, exchangesBefore,
                  stageVars, fanVars, auxVars >>

\* faulty variant of EmbeddingError: a failed video embedding call is an error
EmbeddingError_VideoFatal(noArticles, okQuery, okArticles, okVideos) ==
  CASE noArticles -> "no_fresh_articles"
    [] ~noArticles /\ ~okQuery -> "query_embedding"
    [] ~noArticles /\ okQuery /\ ~okArticles -> "article_embedding"
    [] ~noArticles /\ okQuery /\ okArticles /\ ~okVideos -> "video_embedding"
    [] OTHER -> ""

\* faulty variant of EmbeddingError: the check of lines 1149-1151 missing
EmbeddingError_EmptyAccepted(noArticles, okQuery, okArticles, okVideos) ==
  CASE ~noArticles /\ ~okQuery -> "query_embedding"
    [] ~noArticles /\ okQuery /\ ~okArticles -> "article_embedding"
    [] OTHER -> ""

\* faulty variant of EmbeddingError: a failed article embedding call is only
\* logged
EmbeddingError_ArticlesSkipped(noArticles, okQuery, okArticles, okVideos) ==
  CASE noArticles -> "no_fresh_articles"
    [] ~noArticles /\ ~okQuery -> "query_embedding"
    [] OTHER -> ""

\* lines 1149-1151, 1167-1170, 1178-1181 and 1196-1199: the error
\* generateNewsAndVideoEmbeddings returns ("" for nil); a failed video
\* embedding call is logged
EmbeddingError(noArticles, okQuery, okArticles, okVideos) ==
  CASE noArticles -> "no_fresh_articles"
    [] ~noArticles /\ ~okQuery -> "query_embedding"
    [] ~noArticles /\ okQuery /\ ~okArticles -> "article_embedding"
    [] OTHER -> ""

\* lines 1140-1220: embeddings of the query, the articles and the videos.
\* oks: 1 processing event, 2 GenerateQueryEmbedding,
\*      3 BatchGenerateNewsEmbeddings, 4 BatchGenerateVideoEmbeddings,
\*      5 completed event
generateNewsAndVideoEmbeddings(e) ==
  /\ pc[e] = "embedding"
  /\ \E oks \in Results(5) :
       LET wc == wctx[e]
           noArticles == wc.freshArticles = Unset \/ wc.freshArticles = 0
           error == EmbeddingError(noArticles, oks[2], oks[3], oks[4])
           failed == error # ""
           videoCall == ~noArticles /\ oks[2] /\ oks[3] /\ wc.freshVideos > 0
           wc1 == [wc EXCEPT !.queryEmbeddings = TRUE,
                             !.articleEmbeddings = wc.freshArticles,
                             !.videoEmbeddings =
                                IF videoCall /\ oks[4] THEN wc.freshVideos
                                ELSE 0]
       IN /\ noArticles => (oks[2] /\ oks[3])
          /\ ~oks[2] => oks[3]
          /\ ~videoCall => oks[4]
          /\ failed => oks[5]
          /\ wctx' = [wctx EXCEPT ![e] = IF failed THEN wc ELSE wc1]
          /\ stream' = PublishAll(stream, wc.userID,
                         IF failed
                         THEN << AgentUpdate(wc, "embedding_generation", "processing") >>
                         ELSE << AgentUpdate(wc, "embedding_generation", "processing"),
                                 AgentUpdate(wc1, "embedding_generation", "completed") >>,
                         << oks[1], oks[5] >>)
          /\ faults' = faults - Failures(oks)
          /\ failedCalls' = [failedCalls EXCEPT ![e] =
               @ \cup FailedCalls(oks, << "", "GenerateQueryEmbedding",
                     "BatchGenerateNewsEmbeddings",
                     "BatchGenerateVideoEmbeddings", "" >>)]
          /\ err' = [err EXCEPT ![e] = IF failed THEN error ELSE @]
          /\ pc' = [pc EXCEPT ![e] = IF failed THEN "failed"
                                     ELSE "vector_storage"]
  /\ UNCHANGED << req, intentResult, response, activeWorkflows, stateStore,
                  convStore, quota, cancelled, exchangesBefore,
                  stageVars, fanVars, auxVars >>

\* faulty variant of afterStore: the error of the store stage is returned
afterStore_Fatal(storeOk) == IF storeOk THEN "relevancy" ELSE "failed"

\* lines 1531-1537 of fetchStoreAndSearchArticlesAndVideos: the error of the
\* store stage is logged ("proceeding without it"), ranking is next
afterStore(storeOk) == "relevancy"

\* lines 1279-1285: StoreArticles is called with the fresh articles and
\* their embeddings when neither list is empty
StoreArticlesCalled(wc) == wc.freshArticles > 0 /\ wc.articleEmbeddings > 0

\* faulty variant of StoreVideosCalled: the embeddings are not looked at
StoreVideosCalled_AnyVideos(wc) == wc.freshVideos > 0

\* lines 1288-1297: StoreVideos is called with the fresh videos and their
\* embeddings when neither list is empty
StoreVideosCalled(wc) == wc.freshVideos > 0 /\ wc.videoEmbeddings > 0

\* lines 1239-1338: vector-store write; its error is logged by the caller.
\* oks: 1 processing event, 2 StoreArticles, 3 StoreVideos, 4 completed event
storeFreshArticlesAndVideos(e) ==
  /\ pc[e] = "vector_storage"
  /\ \E oks \in Results(4) :
       LET wc == wctx[e]
           articleCall == StoreArticlesCalled(wc)
           videoCall == StoreVideosCalled(wc)
           failed == ~oks[2]
       IN /\ ~articleCall => oks[2]
          /\ ~videoCall => oks[3]
          /\ failed => oks[4]
          /\ stream' = PublishAll(stream, wc.userID,
                         IF failed
                         THEN << AgentUpdate(wc, "vector_storage", "processing") >>
                         ELSE << AgentUpdate(wc, "vector_storage", "processing"),
                                 AgentUpdate(wc, "vector_storage", "completed") >>,
                         << oks[1], oks[4] >>)
          /\ faults' = faults - Failures(oks)
          /\ pc' = [pc EXCEPT ![e] = afterStore(~failed)]
          /\ failedCalls' = [failedCalls EXCEPT ![e] =
               @ \cup FailedCalls(oks, << "", "StoreArticles", "StoreVideos", "" >>)]
  /\ UNCHANGED << req, wctx, intentResult, response, activeWorkflows,
                  stateStore, convStore, quota, cancelled, exchangesBefore, err,
                  stageVars, fanVars, auxVars >>

\* lines 1498-1521: the first five fresh articles
fallbackToFreshArticles(wc) ==
  [wc EXCEPT !.articles = IF wc.freshArticles = Unset THEN 0
                          ELSE Min(5, wc.freshArticles)]

\* lines 1350-1496, and the fallback of lines 1536-1539.
\* oks: 1 processing event, 2 SearchSimilarArticles, 3 SearchSimilarVideos,
\*      4 GetRelevantArticles, 5 GetRelevantVideos, 6 and 7 the two
\*      completed events; similar: the semantic neighbours found;
\*      ra, rv: the articles and videos the LLM ranking keeps
getRelevantArticlesAndVideos(e) ==
  /\ pc[e] = "relevancy"
  /\ \E oks \in Results(7), similar \in Counts, ra \in Counts, rv \in Counts :
       LET wc == wctx[e]
           failed == ~wc.queryEmbeddings \/ ~oks[2]
           videoCall == ~failed /\ wc.videos > 0
           relevantArticles == IF oks[4] THEN ra ELSE similar
           relevantVideos == IF videoCall /\ oks[5] THEN rv ELSE 0
           wc1 == [wc EXCEPT !.articles = relevantArticles,
                             !.videos = relevantVideos]
       IN /\ failed => (oks[3] /\ oks[4] /\ oks[5] /\ oks[6] /\ oks[7]
                          /\ similar = 0)
          /\ ~oks[4] => ra = 0
          /\ oks[4] => (similar = 0 /\ ra <= wc.freshArticles)
          /\ ~videoCall => oks[5]
          /\ (~videoCall \/ ~oks[5]) => rv = 0
          /\ rv <= wc.videos
          /\ wctx' = [wctx EXCEPT ![e] = IF failed
                                         THEN fallbackToFreshArticles(wc)
                                         ELSE wc1]
          /\ stream' = PublishAll(stream, wc.userID,
                         IF failed
                         THEN << AgentUpdate(wc, "relevancy_agent", "processing") >>
                         ELSE << AgentUpdate(wc, "relevancy_agent", "processing"),
                                 AgentUpdate(wc1, "relevancy_agent", "completed"),
                                 AgentUpdate(wc1, "relevancy_agent", "completed") >>,
                         << oks[1], oks[6], oks[7] >>)
          /\ faults' = faults - Failures(oks)
          /\ failedCalls' = [failedCalls EXCEPT ![e] =
               @ \cup FailedCalls(oks, << "", "SearchSimilarArticles",
                     "SearchSimilarVideos", "GetRelevantArticles",
                     "GetRelevantVideos", "", "" >>)]
  /\ pc' = [pc EXCEPT ![e] = "scrapper"]
  /\ UNCHANGED << req, intentResult, response, activeWorkflows, stateStore,
                  convStore, quota, cancelled, exchangesBefore, err,
                  stageVars, fanVars, auxVars >>

\* lines 859-938: scrape enrichment; returns early when there is no article.
\* oks: 1 processing event, 2 ScrapeMultipleURLs, 3 completed event
enhanceArticlesWithFullContent(e) ==
  /\ pc[e] = "scrapper"
  /\ \E oks \in Results(3) :
       LET wc == wctx[e]
           early == wc.articles = 0
       IN /\ early => (oks[2] /\ oks[3])
          /\ stream' = PublishAll(stream, wc.userID,
                         IF early
                         THEN << AgentUpdate(wc, "scrapper", "processing") >>
                         ELSE << AgentUpdate(wc, "scrapper", "processing"),
                                 AgentUpdate(wc, "scrapper", "completed") >>,
                         << oks[1], oks[3] >>)
          /\ faults' = faults - Failures(oks)
          /\ failedCalls' = [failedCalls EXCEPT ![e] =
               @ \cup FailedCalls(oks, << "", "ScrapeMultipleURLs", "" >>)]
  /\ pc' = [pc EXCEPT ![e] = "summarizer"]
  /\ UNCHANGED << req, wctx, intentResult, response, activeWorkflows,
                  stateStore, convStore, quota, cancelled, exchangesBefore, err,
                  stageVars, fanVars, auxVars >>

\* lines 726-813: the synthesizer; its error fails the pipeline.
\* oks: 1 processing event, 2 SummarizeContent, 3 completed event
generateSummary(e) ==
  /\ pc[e] = "summarizer"
  /\ \E oks \in Results(3) :
       LET wc == wctx[e]
           wc1 == [wc EXCEPT !.summary = TRUE]
       IN /\ ~oks[2] => oks[3]
          /\ wctx' = [wctx EXCEPT ![e] = IF oks[2] THEN wc1 ELSE wc]
          /\ stream' = PublishAll(stream, wc.userID,
                         IF oks[2]
                         THEN << AgentUpdate(wc, "summarizer", "processing"),
                                 AgentUpdate(wc1, "summarizer", "completed") >>
                         ELSE << AgentUpdate(wc, "summarizer", "processing") >>,
                         << oks[1], oks[3] >>)
          /\ faults' = faults - Failures(oks)
          /\ failedCalls' = [failedCalls EXCEPT ![e] =
               @ \cup FailedCalls(oks, << "", "SummarizeContent", "" >>)]
          /\ err' = [err EXCEPT ![e] = IF oks[2] THEN @ ELSE "summary"]
          /\ pc' = [pc EXCEPT ![e] = IF oks[2] THEN "persona" ELSE "failed"]
  /\ UNCHANGED << req, intentResult, response, activeWorkflows, stateStore,
                  convStore, quota, cancelled, exchangesBefore,
                  stageVars, fanVars, auxVars >>

\* lines 688-723, and the fallback of lines 391-394.
\* oks: 1 processing event, 2 AddPersonalityToResponse, 3 completed event
ApplyPersonality(e) ==
  /\ pc[e] = "persona"
  /\ \E oks \in Results(3) :
       LET wc == wctx[e]
           wc1 == [wc EXCEPT !.response = IF oks[2] THEN "resp" ELSE "summary"]
       IN /\ ~oks[2] => oks[3]
          /\ wctx' = [wctx EXCEPT ![e] = wc1]
          /\ stream' = PublishAll(stream, wc.userID,
                         IF oks[2]
                         THEN << AgentUpdate(wc, "persona", "processing"),
                                 AgentUpdate(wc1, "persona", "completed") >>
                         ELSE << AgentUpdate(wc, "persona", "processing") >>,
                         << oks[1], oks[3] >>)
          /\ faults' = faults - Failures(oks)
          /\ failedCalls' = [failedCalls EXCEPT ![e] =
               @ \cup FailedCalls(oks, << "", "AddPersonalityToResponse", "" >>)]
  /\ pc' = [pc EXCEPT ![e] = "succeeded"]
  /\ UNCHANGED << req, intentResult, response, activeWorkflows, stateStore,
                  convStore, quota, cancelled, exchangesBefore, err,
                  stageVars, fanVars, auxVars >>

\* ------------------------------------------------- status, count, cancel
GetWorkflowStatus(workflowID) ==
  IF activeWorkflows[workflowID] # NoExec
  THEN Snapshot(wctx[activeWorkflows[workflowID]])
  ELSE stateStore[workflowID]

GetActiveWorkflowsCount ==
  Cardinality({w \in WorkflowIds : activeWorkflows[w] # NoExec})

CancelWorkflow(workflowID) ==
  /\ activeWorkflows[workflowID] # NoExec
  /\ LET e == activeWorkflows[workflowID]
     IN /\ wctx' = [wctx EXCEPT ![e] = MarkFailed(@)]
        /\ cancelled' = cancelled \cup {e}
  /\ activeWorkflows' = [activeWorkflows EXCEPT ![workflowID] = NoExec]
  /\ UNCHANGED << pc, req, intentResult, response, stateStore, convStore,
                  stream, faults, quota, exchangesBefore, failedCalls, err,
                  stageVars, fanVars, auxVars >>

\* -------------------------------------------------------------------- Next
Next ==
  \/ \E e \in Execs, w \in WorkflowIds, u \in Users, q \in Queries :
       ExecuteWorkflow_Begin(e, w, u, q)
  \/ \E e \in Execs : ExecuteWorkflow_Start(e)
  \/ \E e \in Execs : ExecuteWorkflow_Dispatch(e)
  \/ \E e \in Execs : executeEnhancedMemoryAgent(e)
  \/ \E e \in Execs : executeEnhancedIntentClassifier(e)
  \/ \E e \in Execs : generateContextualResponse(e)
  \/ \E e \in Execs : generateChitChatResponse(e)
  \/ \E e \in Execs : enhanceQueryWithContext(e)
  \/ \E e \in Execs : extractKeywordsFromEnhancedQuery(e)
  \/ \E e \in Execs : fetchArticlesAndVideos(e)
  \/ \E e \in Execs : generateNewsAndVideoEmbeddings(e)
  \/ \E e \in Execs : storeFreshArticlesAndVideos(e)
  \/ \E e \in Execs : getRelevantArticlesAndVideos(e)
  \/ \E e \in Execs : enhanceArticlesWithFullContent(e)
  \/ \E e \in Execs : generateSummary(e)
  \/ \E e \in Execs : ApplyPersonality(e)
  \/ \E e \in Execs : storeConversationExchange(e)
  \/ \E e \in Execs : ExecuteWorkflow_Complete(e)
  \/ \E e \in Execs : ExecuteWorkflow_Fail(e)
  \/ \E w \in WorkflowIds : CancelWorkflow(w)

Spec == Init /\ [][Next]_vars

SpecPair == InitPair /\ [][Next]_vars

\* ------------------------------------------------------------- properties
\* the entries of execution e (request id e) on its user's stream
Events(e) == IF pc[e] = "idle" THEN << >> ELSE stream[req[e].uid][e]

EnvelopeTypes == {"workflow_started", "workflow_completed", "workflow_error"}

TerminalTypes == {"workflow_completed", "workflow_error"}

IntentTypes == {IntentNewNewsQuery, IntentFollowUpDiscussion, IntentChitChat}

\* positions of s whose agent name is in agents
Positions(s, agents) == {i \in DOMAIN s : s[i].agent \in agents}

StagePositions(s) == {i \in DOMAIN s : s[i].agent \notin EnvelopeTypes}

\* executions submitted under workflow id w
ExecsOf(w) == {e \in Execs : pc[e] # "idle" /\ req[e].wid = w}

\* the entries carrying workflow id w, over all executions
Marks(w, agents) ==
  UNION {{<< e, i >> : i \in Positions(Events(e), agents)} : e \in ExecsOf(w)}

\* no outbound call has failed so far (specification Spec)
NoFaultYet == faults = MaxFaults

\* C1 as stated: once the executions of a workflow id have returned, the
\* stream holds for that id exactly one workflow_started entry, before every
\* stage entry, and exactly one terminal entry (workflow_completed or
\* workflow_error), which is the last one
C1_OneStartOneTerminalPerId ==
  \A w \in WorkflowIds :
    (ExecsOf(w) # {} /\ \A e \in ExecsOf(w) : pc[e] = "done") =>
      /\ Cardinality(Marks(w, {"workflow_started"})) = 1
      /\ Cardinality(Marks(w, TerminalTypes)) = 1
      /\ \A e \in ExecsOf(w) :
           LET ev == Events(e)
           IN /\ \A i \in Positions(ev, {"workflow_started"}) :
                   \A j \in StagePositions(ev) : i < j
              /\ \A i \in Positions(ev, TerminalTypes) : i = Len(ev)

\* C1 amended: the entries of one execution (one request id) hold at most one
\* workflow_started entry, which is the first entry, and at most one terminal
\* entry, which is the last entry and is written by the step that returns;
\* when no outbound call failed both are present, and the terminal entry is
\* workflow_completed exactly when the response is completed
C1_EnvelopePerExecution ==
  \A e \in Execs :
    LET ev == Events(e)
        st == Positions(ev, {"workflow_started"})
        tm == Positions(ev, TerminalTypes)
    IN /\ Cardinality(st) <= 1
       /\ \A i \in st : i = 1
       /\ Cardinality(tm) <= 1
       /\ \A i \in tm : i = Len(ev) /\ pc[e] = "done"
       /\ \A i \in DOMAIN ev : ev[i].req = e /\ ev[i].wf = req[e].wid
       /\ (pc[e] = "done" /\ NoFaultYet) =>
            /\ Cardinality(st) = 1
            /\ Cardinality(tm) = 1
            /\ ev[Len(ev)].agent =
                 (IF response[e].status = "completed"
                  THEN "workflow_completed" ELSE "workflow_error")

\* C1 witness: a returned execution whose entries are workflow_started,
\* stage entries, workflow_completed
C1_Witness ==
  \E e \in Execs :
    /\ pc[e] = "done"
    /\ Len(Events(e)) >= 4
    /\ Events(e)[1].agent = "workflow_started"
    /\ Events(e)[Len(Events(e))].agent = "workflow_completed"
    /\ StagePositions(Events(e)) = 2..(Len(Events(e)) - 1)

\* C2 as stated: after CancelWorkflow(id) returned for a workflow whose
\* pipeline is still running, GetWorkflowStatus(id) reports status failed
C2_StatusFailedAfterCancel ==
  \A e \in cancelled :
    Running(e) => GetWorkflowStatus(req[e].wid).status = "failed"

\* C3 as stated: once CancelWorkflow(id) returned, no further entry of that
\* workflow is appended to the stream
C3_NoEventAfterCancel ==
  [][\A e \in cancelled : stream'[req[e].uid][e] = stream[req[e].uid][e]]_vars

\* C4 as stated: when a workflow has returned completed, the persisted
\* conversation of its user holds exactly one more exchange than when the
\* workflow was submitted
C4_OneMoreExchangePersisted ==
  \A e \in Execs :
    (pc[e] = "done" /\ response[e].status = "completed") =>
      Len(PersistedExchanges(req[e].uid)) = exchangesBefore[e] + 1

\* C5 as stated: when two workflows of one user have both returned completed
\* (every call having succeeded), the persisted conversation holds the
\* exchange of each, whether or not the two overlapped
C5_BothExchangesPersisted ==
  \A e \in Execs, f \in Execs :
    ( /\ e # f
      /\ pc[e] = "done" /\ response[e].status = "completed"
      /\ pc[f] = "done" /\ response[f].status = "completed"
      /\ req[e].uid = req[f].uid )
    => \E i \in DOMAIN PersistedExchanges(req[e].uid) :
          PersistedExchanges(req[e].uid)[i].id = e

\* C6 as stated: within one workflow the progress of the stage entries with
\* status processing or completed never decreases along the stream
C6_ProgressNeverDecreases ==
  \A e \in Execs :
    LET ev == Events(e)
        st == {i \in StagePositions(ev) :
                 ev[i].status \in {"processing", "completed"}}
    IN \A i \in st, j \in st : i < j => ev[i].progress <= ev[j].progress

\* C7 as stated: every stage a workflow entered has exactly one processing
\* entry and exactly one completed-or-failed entry once the workflow has
\* returned (stated for the runs in which no call failed, so no entry was
\* lost in delivery)
C7_OneProcessingOneExit ==
  \A e \in Execs :
    (pc[e] = "done" /\ NoFaultYet) =>
      LET ev == Events(e)
      IN \A a \in {ev[i].agent : i \in StagePositions(ev)} :
           /\ Cardinality({i \in Positions(ev, {a}) :
                             ev[i].status = "processing"}) = 1
           /\ Cardinality({i \in Positions(ev, {a}) :
                             ev[i].status \in {"completed", "failed"}}) = 1

\* the progress C8 states, in units of 1/Scale: (index + 0.5) / total for
\* processing, (index + 1) / total for completed, index / total for failed
StatedProgress(agents, agentName, status) ==
  LET index == AgentIndex(agents, agentName)
      total == Len(agents)
  IN CASE status = "processing" -> ((2 * index + 1) * Scale) \div (2 * total)
       [] status = "completed" -> ((index + 1) * Scale) \div total
       [] OTHER -> (index * Scale) \div total

\* C8 as stated: every stage entry of a workflow names a stage of the
\* canonical list of the workflow's branch and carries the stated progress
C8_ProgressIsStated ==
  \A e \in Execs :
    (pc[e] # "idle" /\ wctx[e].intent \in IntentTypes) =>
      LET ev == Events(e)
          agents == getAgentSequence(wctx[e].intent)
      IN \A i \in StagePositions(ev) :
           /\ AgentIndex(agents, ev[i].agent) # -1
           /\ ev[i].progress =
                StatedProgress(agents, ev[i].agent, ev[i].status)

\* C9 as stated: while two executions submitted under one workflow id
\* overlap, GetWorkflowStatus(id) reports the state of the first submission
C9_StatusOfFirstSubmission ==
  \A e \in Execs, f \in Execs :
    (e < f /\ Running(e) /\ Running(f) /\ req[e].wid = req[f].wid) =>
      GetWorkflowStatus(req[e].wid).req = e

\* C10: the step in which an execution returns leaves no registry entry
\* for its workflow id, and whenever no execution is running the registry is
\* empty (the active count is zero)
C10_RegistryClearedOnReturn ==
  [][/\ \A e \in Execs :
          (pc[e] # "done" /\ pc'[e] = "done") =>
            activeWorkflows'[req[e].wid] = NoExec
     /\ (\A e \in Execs : pc'[e] \in {"idle", "done"}) =>
          \A w \in WorkflowIds : activeWorkflows'[w] = NoExec]_vars

\* C10 witness: one execution returned failed after a cancel, another
\* returned completed, nothing is running and the active count is zero
C10_Witness ==
  /\ \E e \in cancelled : pc[e] = "done" /\ response[e].status = "failed"
  /\ \E e \in Execs : pc[e] = "done" /\ response[e].status = "completed"
  /\ \A e \in Execs : ~Running(e)
  /\ GetActiveWorkflowsCount = 0

\* C11 as stated: when the pipeline of a workflow failed, the context with
\* status failed is in the workflow-state store, so GetWorkflowStatus(id)
\* after the execution has returned yields a failed snapshot
C11_FailedSnapshotAfterReturn ==
  \A e \in Execs :
    (pc[e] = "done" /\ response[e].status = "failed" /\ e \notin cancelled) =>
      /\ GetWorkflowStatus(req[e].wid) # NotFound
      /\ GetWorkflowStatus(req[e].wid).status = "failed"

\* the statuses after which a workflow context is sealed
TerminalStatuses == {"completed", "failed", "cancelled", "timeout"}

\* C12 as stated: once the status of a workflow context is failed (also by
\* CancelWorkflow) or completed, neither the status nor the end-time changes
C12_SealedAfterTerminal ==
  [][\A e \in Execs :
       (pc[e] # "idle" /\ wctx[e].status \in {"failed", "completed"}) =>
         /\ wctx'[e].status = wctx[e].status
         /\ wctx'[e].endSet = wctx[e].endSet]_vars

\* s is an initial segment of t
IsPrefix(s, t) == Len(s) <= Len(t) /\ \A i \in DOMAIN s : t[i] = s[i]

\* C13 as stated: the persisted exchange list of a user only grows by
\* appending: every step keeps the exchanges persisted before, unchanged and
\* in order, also when the memory stage's read failed
C13_ExchangesAppendOnly ==
  [][\A u \in Users :
       IsPrefix(PersistedExchanges(u), PersistedExchanges(u)')]_vars

\* C14 as stated: a news workflow that completed (no call having failed, so
\* no entry lost) has stage entries for each of the 12 stages of
\* newsWorkflowAgents, and the stages appear in the order of that list
C14_AllNewsStagesInOrder ==
  \A e \in Execs :
    ( /\ pc[e] = "done" /\ response[e].status = "completed"
      /\ wctx[e].intent = IntentNewNewsQuery
      /\ NoFaultYet ) =>
      LET ev == Events(e)
      IN /\ \A k \in DOMAIN newsWorkflowAgents :
              Positions(ev, {newsWorkflowAgents[k]}) # {}
         /\ \A i \in StagePositions(ev), j \in StagePositions(ev) :
              i < j => AgentIndex(newsWorkflowAgents, ev[i].agent)
                         <= AgentIndex(newsWorkflowAgents, ev[j].agent)

\* C15 as stated: the type field of every stream entry is the kind of the
\* event: workflow_started, workflow_completed or workflow_error for an
\* envelope event, agent_update for a stage event
C15_TypeIsEventKind ==
  \A e \in Execs :
    \A i \in DOMAIN Events(e) :
      Events(e)[i].type = (IF Events(e)[i].agent \in EnvelopeTypes
                           THEN Events(e)[i].agent ELSE "agent_update")

VideoCalls ==
  {"SearchNewsVideos", "SearchVideosByQuery", "GetVideoTranscript",
   "BatchGenerateVideoEmbeddings", "StoreVideos", "SearchSimilarVideos",
   "GetRelevantVideos"}

\* C17: a news workflow in which no service call outside the video path
\* failed and whose article search found articles returns completed, whatever
\* failed in the video path; so a failed response always has a cause outside
\* the video path
C17_VideoFailuresNotFatal ==
  \A e \in Execs :
    ( /\ pc[e] = "done"
      /\ wctx[e].intent = IntentNewNewsQuery
      /\ failedCalls[e] \subseteq VideoCalls
      /\ wctx[e].freshArticles > 0 ) =>
      /\ response[e].status = "completed"
      /\ wctx[e].status = "completed"

\* C17 witness: a news workflow returned completed although a call of the
\* video path failed
C17_Witness ==
  \E e \in Execs :
    /\ pc[e] = "done"
    /\ wctx[e].intent = IntentNewNewsQuery
    /\ failedCalls[e] # {} /\ failedCalls[e] \subseteq VideoCalls
    /\ response[e].status = "completed"

\* C18 as stated: when the news task ended with an empty fresh-article list
\* and no error, the workflow ends failed and the failure reported is the
\* news-search failure
C18_EmptyListIsNewsSearchFailure ==
  \A e \in Execs :
    (pc[e] = "done" /\ wctx[e].freshArticles = 0) =>
      /\ response[e].status = "failed"
      /\ response[e].error = "news_search"

\* C18 amended: when the news task ended with an empty fresh-article list
\* and no error, the retrieval stage succeeds; the embedding stage that
\* follows returns the error "No fresh articles found for embedding
\* generation", no later stage runs, and the workflow ends failed with that
\* error
C18_EmptyListFailsAtEmbedding ==
  \A e \in Execs :
    (pc[e] # "idle" /\ wctx[e].freshArticles = 0) =>
      /\ pc[e] \in {"embedding", "failed", "done"}
      /\ pc[e] # "embedding" => err[e] = "no_fresh_articles"
      /\ pc[e] = "done" =>
           /\ response[e].status = "failed"
           /\ response[e].error = "no_fresh_articles"

\* C18 witness: a workflow whose searches found no article, none of its
\* calls having failed, returned failed with the embedding stage's error
C18_Witness ==
  \E e \in Execs :
    /\ pc[e] = "done" /\ wctx[e].freshArticles = 0
    /\ failedCalls[e] = {}
    /\ response[e].status = "failed"
    /\ response[e].error = "no_fresh_articles"

\* the stage entries the stages after the vector-store write publish
StagesAfterStore == {"relevancy_agent", "scrapper", "summarizer", "persona"}

AbortingCalls ==
  {"ExtractKeyWords", "BatchGenerateNewsEmbeddings", "SummarizeContent"}

AbortError(call) ==
  CASE call = "ExtractKeyWords" -> "keyword_extraction"
    [] call = "BatchGenerateNewsEmbeddings" -> "article_embedding"
    [] OTHER -> "summary"

StagesAfter(call) ==
  CASE call = "ExtractKeyWords" ->
         {"news_fetch", "video_enchancer", "video_enhancer",
          "embedding_generation", "vector_storage"} \cup StagesAfterStore
    [] call = "BatchGenerateNewsEmbeddings" ->
         {"vector_storage"} \cup StagesAfterStore
    [] OTHER -> {"persona"}

\* C20: once keyword extraction, article-embedding generation or the
\* synthesizer has failed, the pipeline returns that error: no later stage
\* publishes an entry, and when the execution has returned the context is
\* sealed as failed and the response has status failed
C20_FatalStageAborts ==
  \A e \in Execs :
    \A call \in AbortingCalls \cap failedCalls[e] :
      /\ pc[e] \in {"failed", "done"}
      /\ err[e] = AbortError(call)
      /\ Positions(Events(e), StagesAfter(call)) = {}
      /\ pc[e] = "done" =>
           /\ wctx[e].status = "failed" /\ wctx[e].endSet
           /\ response[e].status = "failed"
           /\ response[e].error = AbortError(call)

\* C20 witness: an execution whose article-embedding call failed has
\* returned failed, its retrieval stage having run
C20_Witness ==
  \E e \in Execs :
    /\ "BatchGenerateNewsEmbeddings" \in failedCalls[e]
    /\ pc[e] = "done"
    /\ response[e].status = "failed"
    /\ Positions(Events(e), {"news_fetch"}) # {}

\* C22 as stated: when the article embeddings succeeded and the video
\* embedding batch failed (no other call failing), the workflow completes
\* and the ranker accepts no video (videos_filtered = 0)
C22_VideoEmbeddingFailureDropsVideos ==
  \A e \in Execs :
    (pc[e] = "done" /\ failedCalls[e] = {"BatchGenerateVideoEmbeddings"}) =>
      /\ response[e].status = "completed"
      /\ wctx[e].videos = 0

\* the positions of an execution inside the new-news branch
NewsBranch ==
  {"query_enhancer", "keyword_extractor", "news_fetch", "embedding",
   "vector_storage", "relevancy", "scrapper", "summarizer", "persona"}

\* C27 as stated: when the enhanced classification failed and the simple
\* classifier answered news, the workflow runs the new-news branch, not the
\* chitchat branch
C27_SimpleNewsRunsNewsBranch ==
  \A e \in Execs :
    ( /\ intentResult[e] # Nil
      /\ "ClassifyIntentWithContext" \in failedCalls[e]
      /\ "ClassifyIntent" \notin failedCalls[e]
      /\ intentResult[e].intent = "news" ) =>
      /\ pc[e] # "chitchat"
      /\ Positions(Events(e), {"chitchat"}) = {}
      /\ Running(e) /\ pc[e] \notin {"failed", "succeeded", "completing"}
            => pc[e] \in NewsBranch

\* C30 as stated: when the query-expansion call failed, the pipeline goes on
\* to keyword extraction and the query handed to it is the original query
\* (no enhanced query is in the context)
C30_ExpansionFailureUsesOriginal ==
  \A e \in Execs :
    ("EnhanceQueryForSearch" \in failedCalls[e]) =>
      /\ pc[e] \in (NewsBranch \ {"query_enhancer"})
                     \cup {"failed", "succeeded", "completing", "done"}
      /\ ~wctx[e].enhancedQuery

\* ------------------------------------------------- the fan-outs and joins
\* the variables of the executions, left alone by the steps below
mainVars == << pc, req, wctx, intentResult, response, activeWorkflows,
               stateStore, convStore, stream, faults, quota, cancelled,
               exchangesBefore, failedCalls, err >>

\* no execution is submitted: the Init of a function applied on its own
NoSubmission ==
  /\ Idle
  /\ convStore = [u \in Users |-> Nil]
  /\ quota = 0
  /\ faults = 0

\* faulty variant of WaitReturns: Wait returns whatever the counter
WaitReturns_NoBlock(counter) == TRUE

\* sync.WaitGroup.Wait returns when the counter is zero
WaitReturns(counter) == counter = 0

\* the children fan-out s starts: the store fan-out starts its video child
\* only when there are videos with embeddings (lines 1279-1288)
Spawned(s, videos) ==
  IF FanOuts[s] = "store" /\ ~videos THEN {"articles"} ELSE Children

Finished == {"done", "failed"}

\* the calling goroutine enters the next fan-out: wg.Add(2), or wg.Add(1)
\* in the store fan-out.  After the search fan-out a failed article search
\* makes getRelevantArticlesAndVideos return (line 1389), so the ranking
\* fan-out is not entered.  emb: whether the video embeddings were generated
\* (before the store fan-out)
FanAdd ==
  /\ fanPc \in {"idle", "joined"}
  /\ fanStage < Len(FanOuts)
  /\ fanStage > 0 /\ FanOuts[fanStage] = "search"
       => child[fanStage]["articles"] = "done"
  /\ fanStage' = fanStage + 1
  /\ wg' = wg + (IF FanOuts[fanStage + 1] = "store" THEN 1 ELSE 2)
  /\ \E emb \in BOOLEAN :
       /\ FanOuts[fanStage + 1] # "store" => emb
       /\ fanVideos' = (fanVideos /\ emb)
  /\ fanPc' = "go_articles"
  /\ UNCHANGED << child, mainVars, auxVars, stageVars >>

\* a go statement of the calling goroutine (and, in the store fan-out, the
\* wg.Add(1) before the video child)
FanGo ==
  /\ fanPc \in {"go_articles", "go_videos"}
  /\ LET c == IF fanPc = "go_articles" THEN "articles" ELSE "videos"
         more == fanPc = "go_articles"
                   /\ "videos" \in Spawned(fanStage, fanVideos)
     IN /\ child' = [child EXCEPT ![fanStage][c] = "running"]
        /\ fanPc' = IF more THEN "go_videos" ELSE "wait"
        /\ wg' = IF more /\ FanOuts[fanStage] = "store" THEN wg + 1 ELSE wg
  /\ UNCHANGED << fanStage, fanVideos, mainVars, auxVars, stageVars >>

\* wg.Wait()
FanWait ==
  /\ fanPc = "wait"
  /\ WaitReturns(wg)
  /\ fanPc' = "joined"
  /\ UNCHANGED << fanStage, wg, child, fanVideos, mainVars, auxVars, stageVars >>

\* the service call of child c of fan-out s returns; the child calls
\* wg.Done() on return (defer), except the video child of the fetch fan-out
\* when it found videos: it goes on to enhanceVideosWithTranscripts
ChildCall(s, c) ==
  /\ child[s][c] = "running"
  /\ \E ok \in BOOLEAN, found \in BOOLEAN :
       LET fetchVideos == FanOuts[s] = "fetch" /\ c = "videos"
           enrich == fetchVideos /\ ok /\ found
       IN /\ (~ok \/ ~fetchVideos) => ~found
          /\ child' = [child EXCEPT ![s][c] =
                         IF enrich THEN "enriching"
                         ELSE IF ok THEN "done" ELSE "failed"]
          /\ wg' = IF enrich THEN wg ELSE wg - 1
          /\ fanVideos' = IF fetchVideos THEN found ELSE fanVideos
  /\ UNCHANGED << fanStage, fanPc, mainVars, auxVars, stageVars >>

\* enhanceVideosWithTranscripts returns, then the video child (wg.Done())
ChildEnrich(s, c) ==
  /\ child[s][c] = "enriching"
  /\ child' = [child EXCEPT ![s][c] = "done"]
  /\ wg' = wg - 1
  /\ UNCHANGED << fanStage, fanPc, fanVideos, mainVars, auxVars, stageVars >>

NextFanOut ==
  \/ FanAdd
  \/ FanGo
  \/ FanWait
  \/ \E s \in DOMAIN FanOuts, c \in Children : ChildCall(s, c)
  \/ \E s \in DOMAIN FanOuts, c \in Children : ChildEnrich(s, c)

\* before the first fan-out: nothing submitted, no child started
InitFanOut == NoSubmission /\ StageIdle /\ FanIdle

SpecFanOut == InitFanOut /\ [][NextFanOut]_vars

\* C25: when a fan-out has been joined, and so whenever a later stage has
\* started, every child task it started has finished (the video child of the
\* fetch fan-out after its transcript enrichment), and the WaitGroup counter
\* is zero
C25_JoinBeforeNextStage ==
  \A s \in DOMAIN FanOuts :
    (s < fanStage \/ (s = fanStage /\ fanPc = "joined")) =>
      /\ \A c \in Children :
           child[s][c] \in Finished \cup {"none"}
      /\ child[s]["articles"] \in Finished
      /\ s < fanStage \/ wg = 0

\* C25 witness: the ranking fan-out is joined and every fan-out before it
\* ran both its children to the end
C25_Witness ==
  /\ fanStage = Len(FanOuts) /\ fanPc = "joined"
  /\ \A s \in DOMAIN FanOuts : \A c \in Children : child[s][c] \in Finished

\* ----------------------------------------- the stage functions, on lists
\* sizes of the lists the ranking is applied to
MaxFresh == 6
MaxSimilar == 9
MaxReturned == 9

\* relevance scores in tenths: 0.5 is 5, and [0,1] is 0..10
FallbackScore == 5
FallbackSelectionMax == 3
FallbackVideoMax == 5
FallbackFreshMax == 5

\* a list of n items of one origin ("fresh" from the news or video API,
\* "stored" from the vector store), none of them scored yet; title and url
\* tell whether the item has a non-empty title and a non-empty URL
Items(origin, n) ==
  [i \in 1..n |-> [origin |-> origin, id |-> i, score |-> 0,
                   title |-> TRUE, url |-> TRUE]]

\* the answer of the news API: n entries with title and URL, then one
\* without a title and one without a URL
ApiArticles(n) ==
  [i \in 1..(n + 2) |-> [id |-> i, title |-> i # n + 1, url |-> i # n + 2]]

\* convertToDesiredFormat: the entries with a title and a URL, in order
convertToDesiredFormat(apiArticles) ==
  LET valid == SelectSeq(apiArticles, LAMBDA a : a.title /\ a.url)
  IN [i \in 1..Len(valid) |->
        [origin |-> "fresh", id |-> valid[i].id, score |-> 0,
         title |-> TRUE, url |-> TRUE]]

\* convertToVideoModel: the title is the snippet's, the URL is built from
\* the video id
convertToVideoModel(item) ==
  [origin |-> "fresh", id |-> item.id, score |-> 0,
   title |-> item.title, url |-> TRUE]

\* the videos of a YouTube answer of n items, all with a title or all
\* without
YouTubeVideos(n, titled) ==
  [i \in 1..n |-> convertToVideoModel([id |-> i, title |-> titled])]

\* an item built from the fields of the LLM response alone
Invented(item) ==
  [origin |-> "llm", id |-> 0, score |-> 0,
   title |-> item.named, url |-> item.named]

\* the scores an LLM response can hold
LLMScores == {0 - 5, 5, 15}

\* the LLM outcomes: transport error, unparsable answer, or n items, the
\* i-th naming index i - 1 of the list it was shown; named tells whether
\* the items of the answer hold a title and a URL
LLMOutcomes ==
  { [kind |-> "error", items |-> << >>],
    [kind |-> "malformed", items |-> << >>] }
  \cup { [kind |-> "ok",
          items |-> [i \in 1..n |->
                       [id |-> i - 1, score |-> sc, named |-> nm]]] :
           n \in {0, 1, MaxReturned}, sc \in LLMScores, nm \in BOOLEAN }

\* fallbackSelection: the first three, each with score 0.5
fallbackSelection(articles) ==
  [i \in 1..Min(FallbackSelectionMax, Len(articles)) |->
     [articles[i] EXCEPT !.score = FallbackScore]]

\* fallbackVideoSelection: the first five, each with score 0.5
fallbackVideoSelection(videos) ==
  [i \in 1..Min(FallbackVideoMax, Len(videos)) |->
     [videos[i] EXCEPT !.score = FallbackScore]]

\* parseRelevantArticlesResponse, parseRelevantVideosResponse: one item per
\* element of the response; an index in range takes the original, any
\* other an item built from the response; the score is copied as it is
parseRelevantResponse(items, originals) ==
  [i \in 1..Len(items) |->
     [(IF items[i].id >= 0 /\ items[i].id < Len(originals)
       THEN originals[items[i].id + 1] ELSE Invented(items[i]))
      EXCEPT !.score = items[i].score]]

\* GetRelevantArticles: nothing to rank returns nothing; a transport error
\* is an error; an unparsable answer takes fallbackSelection
GetRelevantArticles(llm, articles) ==
  IF Len(articles) = 0 THEN [ok |-> TRUE, list |-> << >>]
  ELSE IF llm.kind = "error" THEN [ok |-> FALSE, list |-> << >>]
  ELSE IF llm.kind = "malformed"
       THEN [ok |-> TRUE, list |-> fallbackSelection(articles)]
  ELSE [ok |-> TRUE, list |-> parseRelevantResponse(llm.items, articles)]

\* GetRelevantVideos: the same with fallbackVideoSelection
GetRelevantVideos(llm, videos) ==
  IF Len(videos) = 0 THEN [ok |-> TRUE, list |-> << >>]
  ELSE IF llm.kind = "error" THEN [ok |-> FALSE, list |-> << >>]
  ELSE IF llm.kind = "malformed"
       THEN [ok |-> TRUE, list |-> fallbackVideoSelection(videos)]
  ELSE [ok |-> TRUE, list |-> parseRelevantResponse(llm.items, videos)]

\* fallbackToFreshArticles on the list: the first five fresh articles, each
\* with score 0.5
FreshFallbackList(fresh) ==
  [i \in 1..Min(FallbackFreshMax, Len(fresh)) |->
     [fresh[i] EXCEPT !.score = FallbackScore]]

\* getRelevantArticlesAndVideos on the lists, with the caller's handling of
\* its error: a failed article search leaves the fetched videos and takes
\* the fresh fallback; otherwise the articles are the LLM's, or the similar
\* ones if the LLM call failed, and the videos are the LLM's, or none
RankLists(in) ==
  IF ~in.articleSearchOk
  THEN [articles |-> FreshFallbackList(in.fresh), videos |-> in.videos,
        searchErr |-> TRUE]
  ELSE LET a == GetRelevantArticles(in.articleLLM, in.fresh)
           v == IF Len(in.videos) > 0
                THEN GetRelevantVideos(in.videoLLM, in.videos)
                ELSE [ok |-> TRUE, list |-> << >>]
       IN [articles |-> IF a.ok THEN a.list ELSE in.similarArticles,
           videos |-> IF v.ok THEN v.list ELSE << >>,
           searchErr |-> FALSE]

\* the inputs of the ranking: the fresh articles (the embedding stage lets
\* no empty list through), the fetched videos, the results of the two
\* vector searches (none where the search failed, written as size -1) and
\* the two LLM outcomes
RankInputs ==
  { [fn |-> "rank", fresh |-> convertToDesiredFormat(ApiArticles(nf)),
     videos |-> YouTubeVideos(nv, vt),
     articleSearchOk |-> sa >= 0,
     similarArticles |-> Items("stored", sa),
     videoSearchOk |-> sv >= 0,
     similarVideos |-> Items("stored", sv),
     articleLLM |-> al, videoLLM |-> vl] :
       nf \in {1, MaxFresh}, nv \in {0, 1, MaxFresh}, vt \in BOOLEAN,
       sa \in {0 - 1, 0, 1, MaxSimilar}, sv \in {0 - 1, 0, 1},
       al \in LLMOutcomes, vl \in LLMOutcomes }

\* the ranking applied to one input
RankStage ==
  /\ stageOut = Nil
  /\ stageIn.fn = "rank"
  /\ stageOut' = RankLists(stageIn)
  /\ UNCHANGED << stageIn, mainVars, auxVars, fanVars >>

\* C23: after the ranking, the accepted article list and the accepted video
\* list each hold at most 8 items, on the LLM path and on every fallback
C23_AtMostEightAccepted ==
  (stageOut # Nil /\ stageIn.fn = "rank") =>
    /\ Len(stageOut.articles) <= 8
    /\ Len(stageOut.videos) <= 8

\* C24: after the ranking, every accepted article has a relevance score
\* within [0,1], whatever scores the LLM returned
C24_ScoresWithinUnitInterval ==
  (stageOut # Nil /\ stageIn.fn = "rank") =>
    \A i \in DOMAIN stageOut.articles : stageOut.articles[i].score \in 0..10

\* C28: when the LLM article ranking fails, the accepted articles are the
\* semantic neighbours if there are any, otherwise the first five fresh
\* articles, each with score 0.5
C28_ArticleRankingFailureFallsBack ==
  (/\ stageOut # Nil /\ stageIn.fn = "rank"
   /\ stageIn.articleSearchOk
   /\ stageIn.articleLLM.kind = "error") =>
    stageOut.articles = (IF stageIn.similarArticles # << >>
                         THEN stageIn.similarArticles
                         ELSE FreshFallbackList(stageIn.fresh))

\* C29: when the LLM video ranking fails, the accepted videos are the
\* semantically similar videos of the vector store
C29_VideoRankingFailureKeepsSimilar ==
  (/\ stageOut # Nil /\ stageIn.fn = "rank"
   /\ stageIn.articleSearchOk
   /\ Len(stageIn.videos) > 0
   /\ stageIn.videoLLM.kind = "error") =>
    stageOut.videos = stageIn.similarVideos

\* ------------------------------------------ the classifier, on its answers
\* confidences are in tenths: 0.9 is 9

\* the answers of the simple classifier as parseIntentResponse reads them:
\* empty or not, the text before the first "|" ("none" without a "|"), and
\* whether the text holds one of the news words or one of the chat words;
\* the tag is part of the text, so a tag "news" is a news word too
SimpleResponses ==
  { r \in [empty : BOOLEAN, tag : {"news", "chit_chat", "other", "none"},
           newsWord : BOOLEAN, chatWord : BOOLEAN] :
      /\ r.empty => (r.tag = "none" /\ ~r.newsWord /\ ~r.chatWord)
      /\ r.tag = "news" => r.newsWord
      /\ r.tag = "chit_chat" => r.chatWord }

\* parseIntentResponse
parseIntentResponse(resp) ==
  IF resp.empty THEN [intent |-> "chitchat", confidence |-> 5]
  ELSE IF resp.tag \in {"news", "chit_chat"}
       THEN [intent |-> resp.tag, confidence |-> 9]
  ELSE IF resp.newsWord THEN [intent |-> "news", confidence |-> 8]
  ELSE IF resp.chatWord THEN [intent |-> "chit_chat", confidence |-> 8]
  ELSE [intent |-> "chit_chat", confidence |-> 4]

\* the outcomes of ClassifyIntent: a transport error or an answer
SimpleOutcomes ==
  { [kind |-> "error", resp |-> Nil] }
  \cup { [kind |-> "ok", resp |-> r] : r \in SimpleResponses }

\* faulty variant of SimpleClassification: a failed call keeps the values
\* ClassifyIntent returned with its error
SimpleClassification_KeepsReturned(simple) ==
  IF simple.kind = "error" THEN [intent |-> "", confidence |-> 0]
  ELSE parseIntentResponse(simple.resp)

\* lines 295-307: the simple classification and the values taken when it
\* fails
SimpleClassification(simple) ==
  IF simple.kind = "error" THEN [intent |-> IntentChitChat, confidence |-> 0]
  ELSE parseIntentResponse(simple.resp)

\* the outcomes of ClassifyIntentWithContext: a transport error, an answer
\* that is JSON (with the intent and confidence it states), or an answer
\* that is not, which mentions "news", else "follow", or neither
EnhancedOutcomes ==
  { [kind |-> "error", intent |-> "", confidence |-> 0, mentions |-> "none"] }
  \cup { [kind |-> "json", intent |-> i, confidence |-> 9, mentions |-> "none"] :
           i \in IntentTypes }
  \cup { [kind |-> "text", intent |-> "", confidence |-> 0, mentions |-> w] :
           w \in {"news", "follow", "none"} }

\* parseEnhancedIntentResponse: the JSON fields, or the keyword fallback
parseEnhancedIntentResponse(enhanced) ==
  IF enhanced.kind = "json"
  THEN [intent |-> enhanced.intent, confidence |-> enhanced.confidence]
  ELSE IF enhanced.mentions = "news"
       THEN [intent |-> IntentNewNewsQuery, confidence |-> 8]
  ELSE IF enhanced.mentions = "follow"
       THEN [intent |-> IntentFollowUpDiscussion, confidence |-> 8]
  ELSE [intent |-> IntentChitChat, confidence |-> 6]

\* executeEnhancedIntentClassifier on the two answers, then the switch of
\* executeConversationalPipeline: the simple classifier is called when the
\* enhanced call returned an error; the stage itself returns no error
ClassifyLists(in) ==
  LET simpleCalled == in.enhanced.kind = "error"
      r == IF simpleCalled THEN SimpleClassification(in.simple)
           ELSE parseEnhancedIntentResponse(in.enhanced)
  IN [intent |-> r.intent, confidence |-> r.confidence,
      simpleCalled |-> simpleCalled, next |-> Route(r.intent),
      stageErr |-> FALSE]

\* the inputs of the classifier: the two answers
ClassifyInputs ==
  { [fn |-> "classify", enhanced |-> en, simple |-> si] :
      en \in EnhancedOutcomes, si \in SimpleOutcomes }

\* the classifier applied to one input
ClassifierStage ==
  /\ stageOut = Nil
  /\ stageIn.fn = "classify"
  /\ stageOut' = ClassifyLists(stageIn)
  /\ UNCHANGED << stageIn, mainVars, auxVars, fanVars >>

\* C26 as stated: when the enhanced classification fails by transport error
\* or by an answer that is not JSON, the simple classifier is invoked, and
\* when that fails too the stage yields chitchat with confidence 0 and the
\* pipeline continues
C26_AnyFailureInvokesSimpleClassifier ==
  (/\ stageOut # Nil /\ stageIn.fn = "classify"
   /\ stageIn.enhanced.kind \in {"error", "text"}) =>
    /\ stageOut.simpleCalled
    /\ stageIn.simple.kind = "error" =>
         /\ stageOut.intent = IntentChitChat
         /\ stageOut.confidence = 0
         /\ ~stageOut.stageErr

\* C26: the simple classifier is invoked exactly when the enhanced call
\* fails by transport error, and when it fails too the stage yields chitchat
\* with confidence 0 and the pipeline continues on the chitchat branch; an
\* answer that is not JSON is settled by the enhanced parser's keyword
\* matching (news or follow-up with confidence 0.8, else chitchat with 0.6),
\* without the simple classifier
C26_TransportFailureInvokesSimpleClassifier ==
  (stageOut # Nil /\ stageIn.fn = "classify") =>
    /\ stageOut.simpleCalled <=> stageIn.enhanced.kind = "error"
    /\ ~stageOut.stageErr
    /\ (stageIn.enhanced.kind = "error" /\ stageIn.simple.kind = "error") =>
         /\ stageOut.intent = IntentChitChat
         /\ stageOut.confidence = 0
         /\ stageOut.next = "chitchat"
    /\ stageIn.enhanced.kind = "text" =>
         /\ stageOut.intent \in IntentTypes
         /\ stageOut.confidence =
              (IF stageOut.intent = IntentChitChat THEN 6 ELSE 8)

\* C26 witness: both classifiers failed by transport error and the stage
\* yielded chitchat with confidence 0
C26_Witness ==
  /\ stageOut # Nil /\ stageIn.fn = "classify"
  /\ stageIn.enhanced.kind = "error" /\ stageIn.simple.kind = "error"
  /\ stageOut.simpleCalled
  /\ stageOut.intent = IntentChitChat /\ stageOut.confidence = 0

\* ------------------------------- scraping and styling, on the article list
\* the most articles the scraper is applied to
MaxArticles == 2

\* the accepted articles: each with the content the news API gave it, if
\* any, and no author yet
ArticleLists(n) ==
  { [i \in 1..n |-> [id |-> i, content |-> c[i], author |-> ""]] :
      c \in [1..n -> {"", "api"}] }

\* what ScrapeURL can give for one article: an error, a successful scrape
\* with text and author, or a successful scrape with neither
ScrapeOutcomes == {"error", "full", "blank"}

\* faulty variant of ScrapeNewsArticle: a failed scrape clears the content
ScrapeNewsArticle_Clears(article, outcome) ==
  IF outcome = "full"
  THEN [article EXCEPT !.content = "scraped",
                       !.author = IF @ = "" THEN "scraped" ELSE @]
  ELSE [article EXCEPT !.content = ""]

\* ScrapeNewsArticle: a failed ScrapeURL returns the article as it is; a
\* successful one replaces the content if it found any and fills an empty
\* author
ScrapeNewsArticle(article, outcome) ==
  IF outcome = "full"
  THEN [article EXCEPT !.content = "scraped",
                       !.author = IF @ = "" THEN "scraped" ELSE @]
  ELSE article

\* enhanceArticlesWithFullContent on the list: nothing to do without
\* articles; a failed batch scrape falls back to one ScrapeNewsArticle per
\* article; a successful one replaces the content of the articles whose
\* URL is among the successful scrapes with non-empty content
ScrapeList(articles, batch, single) ==
  IF Len(articles) = 0 THEN articles
  ELSE IF batch.kind = "error"
       THEN [i \in 1..Len(articles) |->
               ScrapeNewsArticle(articles[i], single[i])]
  ELSE [i \in 1..Len(articles) |->
          IF i \in batch.scraped /\ batch.content # ""
          THEN [articles[i] EXCEPT !.content = batch.content]
          ELSE articles[i]]

\* lines 383-396 of executeNewsWorkflow: the scraper's error is only
\* logged, a failed summary is the workflow's error, and a failed styling
\* leaves the summary as the response
ContentLists(in) ==
  LET scraped == ScrapeList(in.articles, in.batch, in.single)
  IN IF ~in.summaryOk
     THEN [articles |-> scraped, summary |-> "", response |-> "",
           stageErr |-> TRUE]
     ELSE [articles |-> scraped, summary |-> "summary",
           response |-> IF in.personaOk THEN "styled" ELSE "summary",
           stageErr |-> FALSE]

\* the inputs: the accepted articles, the outcome of the batch scrape (an
\* error, or the articles it scraped and the text it found), the outcome
\* of each single scrape, and those of the summary and of the styling
ContentInputs ==
  UNION { { [fn |-> "content", articles |-> a, batch |-> b, single |-> s,
             summaryOk |-> so, personaOk |-> po] :
              a \in ArticleLists(n),
              b \in { [kind |-> "error", scraped |-> {}, content |-> ""] }
                    \cup { [kind |-> "ok", scraped |-> S, content |-> c] :
                             S \in SUBSET (1..n), c \in {"", "scraped"} },
              s \in [1..n -> ScrapeOutcomes],
              so \in BOOLEAN, po \in BOOLEAN } :
          n \in {0, 1, MaxArticles} }

\* scraping, summary and styling applied to one input
ContentStage ==
  /\ stageOut = Nil
  /\ stageIn.fn = "content"
  /\ stageOut' = ContentLists(stageIn)
  /\ UNCHANGED << stageIn, mainVars, auxVars, fanVars >>

\* ------------------------------------------------ the keyword list
\* the most batches added, and the most keywords in one batch
MaxBatches == 2
MaxBatchLen == 2

\* the keywords an extraction can return
KeywordValues == {"k1", "k2"}

\* the elements of a list
Range(s) == { s[i] : i \in DOMAIN s }

\* the lists of at most n elements of a set
SeqUpTo(S, n) == UNION { [1..k -> S] : k \in 0..n }

\* AddKeywords: the keywords of the batch that are not in the list as it
\* was before the call are appended, in the order of the batch
AddKeywords(keywords, batch) ==
  keywords \o SelectSeq(batch, LAMBDA kw : kw \notin Range(keywords))

\* the list after the batches were added one by one to an empty list
RECURSIVE AddAll(_, _)
AddAll(keywords, batches) ==
  IF batches = << >> THEN keywords
  ELSE AddAll(AddKeywords(keywords, Head(batches)), Tail(batches))

\* the inputs: the batches returned by the keyword extractions
KeywordInputs ==
  { [fn |-> "keywords", batches |-> b] :
      b \in SeqUpTo(SeqUpTo(KeywordValues, MaxBatchLen), MaxBatches) }

\* the batches added to the keyword list of a new context
KeywordStage ==
  /\ stageOut = Nil
  /\ stageIn.fn = "keywords"
  /\ stageOut' = [keywords |-> AddAll(<< >>, stageIn.batches)]
  /\ UNCHANGED << stageIn, mainVars, auxVars, fanVars >>

\* --------------------------------- the recent topics and recent keywords
\* the capacities of current-topics and of recent-keywords
TopicsLimit == 10
KeywordsLimit == 20

\* the items of a list that another list does not hold yet are appended,
\* each once, in their order
RECURSIVE AppendNew(_, _)
AppendNew(result, new) ==
  IF new = << >> THEN result
  ELSE AppendNew(IF Head(new) \in Range(result) THEN result
                 ELSE Append(result, Head(new)),
                 Tail(new))

\* mergeAndLimit: the new items are appended, then the last limit items
\* are kept
mergeAndLimit(existing, new, limit) ==
  LET result == AppendNew(existing, new)
  IN IF Len(result) > limit
     THEN SubSeq(result, Len(result) - limit + 1, Len(result))
     ELSE result

\* updateRecentContext
updateRecentContext(cc, topics, keywords) ==
  [currentTopics |-> mergeAndLimit(cc.currentTopics, topics, TopicsLimit),
   recentKeywords |-> mergeAndLimit(cc.recentKeywords, keywords, KeywordsLimit)]

\* what an exchange can mention: the oldest entry of a list of n entries
\* (entry 1) and two entries the list does not hold
Mentions(n) == SeqUpTo({1, n + 1, n + 2}, MaxBatchLen)

\* the inputs: a list of topics and a list of keywords, each full or one
\* short of full, oldest entry first, and the topics and keywords of one
\* more exchange
ContextInputs ==
  { [fn |-> "context",
     cc |-> [currentTopics |-> [i \in 1..nt |-> i],
             recentKeywords |-> [i \in 1..nk |-> i]],
     topics |-> t, keywords |-> k] :
      nt \in {TopicsLimit - 1, TopicsLimit},
      nk \in {KeywordsLimit - 1, KeywordsLimit},
      t \in Mentions(TopicsLimit), k \in Mentions(KeywordsLimit) }

\* the context updated with one more exchange
ContextStage ==
  /\ stageOut = Nil
  /\ stageIn.fn = "context"
  /\ stageOut' = updateRecentContext(stageIn.cc, stageIn.topics,
                                      stageIn.keywords)
  /\ UNCHANGED << stageIn, mainVars, auxVars, fanVars >>

\* the inputs of the functions
StageInputs ==
  RankInputs \cup ClassifyInputs \cup ContentInputs \cup KeywordInputs
  \cup ContextInputs

\* one function is applied to its input
NextStage ==
  \/ RankStage \/ ClassifierStage \/ ContentStage \/ KeywordStage
  \/ ContextStage

\* a stage function applied on its own to one input of its bounded set
InitStage ==
  /\ NoSubmission /\ FanIdle
  /\ stageIn \in StageInputs /\ stageOut = Nil

SpecStage == InitStage /\ [][NextStage]_vars

\* the articles of the input whose scrape failed: with a failed batch, those
\* whose single scrape failed too; otherwise those the batch did not scrape
ScrapeFailed(in) ==
  { i \in DOMAIN in.articles :
      IF in.batch.kind = "error" THEN in.single[i] = "error"
      ELSE i \notin in.batch.scraped }

\* C21: a failure of the scraping or of the styling never fails the
\* workflow (only a failed summary does); the accepted articles stay the
\* same articles in the same order, each article whose scrape failed is
\* unchanged with its prior content, and after a failed styling the final
\* response is the unstyled summary
C21_OptionalStagesNeverFail ==
  (stageOut # Nil /\ stageIn.fn = "content") =>
    /\ stageOut.stageErr <=> ~stageIn.summaryOk
    /\ Len(stageOut.articles) = Len(stageIn.articles)
    /\ \A i \in DOMAIN stageIn.articles :
         stageOut.articles[i].id = stageIn.articles[i].id
    /\ \A i \in ScrapeFailed(stageIn) :
         stageOut.articles[i] = stageIn.articles[i]
    /\ (stageIn.summaryOk /\ ~stageIn.personaOk) =>
         stageOut.response = stageOut.summary

\* C21 witness: the batch scrape failed, so did the single scrape of an
\* article that had content, the styling failed, and the workflow went on
\* with that article unchanged and the summary as the response
C21_Witness ==
  /\ stageOut # Nil /\ stageIn.fn = "content"
  /\ stageIn.batch.kind = "error"
  /\ \E i \in DOMAIN stageIn.articles :
       /\ stageIn.single[i] = "error"
       /\ stageIn.articles[i].content = "api"
       /\ stageOut.articles[i] = stageIn.articles[i]
  /\ stageIn.summaryOk /\ ~stageIn.personaOk
  /\ ~stageOut.stageErr /\ stageOut.response = "summary"
\* C31: whenever a workflow context has is-follow-up set, its referenced
\* topic is non-empty
C31_FollowUpHasReferencedTopic ==
  \A e \in Execs :
    (wctx[e] # Nil /\ wctx[e].isFollowUp) => wctx[e].referencedTopic
\* C32: no entry of the accepted article list or of the accepted video
\* list has an empty title or an empty URL, entries built by the ranker
\* from the LLM response and entries taken from search results included
C32_EntriesHaveTitleAndURL ==
  (stageOut # Nil /\ stageIn.fn = "rank") =>
    /\ \A i \in DOMAIN stageOut.articles :
         stageOut.articles[i].title /\ stageOut.articles[i].url
    /\ \A i \in DOMAIN stageOut.videos :
         stageOut.videos[i].title /\ stageOut.videos[i].url
\* C33: after any sequence of keyword additions the keyword list holds no
\* value twice, also when one added batch itself repeats a keyword
C33_KeywordsHaveNoDuplicates ==
  (stageOut # Nil /\ stageIn.fn = "keywords") =>
    \A i, j \in DOMAIN stageOut.keywords :
      stageOut.keywords[i] = stageOut.keywords[j] => i = j
Close_Begin ==
  /\ closePc = "open"
  /\ closePc' = "waiting"
  /\ UNCHANGED << mainVars, stageVars, fanVars, embedVars, retryVars, scrape >>

\* a tick of the ticker: Close returns if the registry is empty, and goes
\* on waiting otherwise
Close_Tick ==
  /\ closePc = "waiting"
  /\ GetActiveWorkflowsCount = 0
  /\ closePc' = "drained"
  /\ UNCHANGED << mainVars, stageVars, fanVars, embedVars, retryVars, scrape >>

\* the timeout fires: Close returns whatever the registry holds
Close_Timeout ==
  /\ closePc = "waiting"
  /\ closePc' = "timeout"
  /\ UNCHANGED << mainVars, stageVars, fanVars, embedVars, retryVars, scrape >>

\* the executions, and one call of Close at any moment
NextClose == Next \/ Close_Begin \/ Close_Tick \/ Close_Timeout

SpecClose == InitPair /\ [][NextClose]_vars

\* C35: Close returns before the timeout only when no execution is still
\* running, a cancelled one and one sharing its id with an execution that
\* already returned included
C35_CloseWaitsForRunningExecutions ==
  [][(closePc = "waiting" /\ closePc' = "drained") =>
       \A e \in Execs : ~Running(e)]_vars
\* an entry of a list is evicted before another: it is gone from the list
\* the update left while the other is still there
EvictedBefore(x, y, out) == x \notin Range(out) /\ y \in Range(out)

\* C36: when current-topics or recent-keywords exceeds its capacity, the
\* entry evicted is the least recently used one: an entry the newer
\* exchange mentions again is not evicted before an entry it does not
\* mention
C36_EvictionIsLeastRecentlyUsed ==
  (stageOut # Nil /\ stageIn.fn = "context") =>
    /\ \A x \in Range(stageIn.cc.currentTopics) \cap Range(stageIn.topics) :
         \A y \in Range(stageIn.cc.currentTopics) \ Range(stageIn.topics) :
           ~EvictedBefore(x, y, stageOut.currentTopics)
    /\ \A x \in Range(stageIn.cc.recentKeywords) \cap Range(stageIn.keywords) :
         \A y \in Range(stageIn.cc.recentKeywords) \ Range(stageIn.keywords) :
           ~EvictedBefore(x, y, stageOut.recentKeywords)
\* -------------------------------------------------- the embedding requests
\* faulty variant of Release: the deferred receive is missing
Release_Leak(tokens) == tokens

\* line 304: the deferred receive takes one token out of the semaphore
Release(tokens) == tokens - 1

\* a goroutine calls makeEmbeddingRequest and reaches the select; the calls
\* are numbered in the order they arrive
Request_Call(r) ==
  /\ reqPc[r] = "idle"
  /\ \A q \in Requests : q < r => reqPc[q] # "idle"
  /\ reqPc' = [reqPc EXCEPT ![r] = "select"]
  /\ UNCHANGED << semaphore, ctxDone, closePc, mainVars, stageVars, fanVars,
                 retryVars, scrape >>

\* line 303: the send on the semaphore goes through when it holds fewer
\* tokens than its capacity; the HTTP request is then in flight
Request_Acquire(r) ==
  /\ reqPc[r] = "select"
  /\ semaphore < SemaphoreSize
  /\ semaphore' = semaphore + 1
  /\ reqPc' = [reqPc EXCEPT ![r] = "inflight"]
  /\ UNCHANGED << ctxDone, closePc, mainVars, stageVars, fanVars,
                 retryVars, scrape >>

\* lines 305-306: the context is done while the call is at the select; it
\* returns the context's error without a token
Request_Cancelled(r) ==
  /\ reqPc[r] = "select"
  /\ ctxDone
  /\ reqPc' = [reqPc EXCEPT ![r] = "cancelled"]
  /\ UNCHANGED << semaphore, ctxDone, closePc, mainVars, stageVars, fanVars,
                 retryVars, scrape >>

\* lines 309-340: the request ends, with an embedding or with an error
\* (a cancellation included); the deferred function releases the token
Request_Return(r) ==
  /\ reqPc[r] = "inflight"
  /\ \E outcome \in {"ok", "error"} :
       reqPc' = [reqPc EXCEPT ![r] = outcome]
  /\ semaphore' = Release(semaphore)
  /\ UNCHANGED << ctxDone, closePc, mainVars, stageVars, fanVars,
                 retryVars, scrape >>

\* the context of the calls is cancelled
Request_CtxCancel ==
  /\ ~ctxDone
  /\ ctxDone' = TRUE
  /\ UNCHANGED << reqPc, semaphore, closePc, mainVars, stageVars, fanVars,
                 retryVars, scrape >>

NextSlots ==
  \/ \E r \in Requests : Request_Call(r)
  \/ \E r \in Requests : Request_Acquire(r)
  \/ \E r \in Requests : Request_Cancelled(r)
  \/ \E r \in Requests : Request_Return(r)
  \/ Request_CtxCancel

InitSlots == NoSubmission /\ StageIdle /\ FanIdle

\* a request in flight ends, and a call at the select gets the token a
\* free slot offers (blocked senders of a channel are served in turn)
SpecSlots ==
  /\ InitSlots /\ [][NextSlots]_vars
  /\ WF_vars(\E r \in Requests : Request_Return(r))
  /\ WF_vars(\E r \in Requests : Request_Acquire(r))

RequestsInFlight == { r \in Requests : reqPc[r] = "inflight" }

\* C37: at every moment at most 5 embedding requests are in flight, the
\* requests in flight are those that hold a token (a request that ended,
\* by success, error or cancellation, holds none), and a call waiting for
\* a slot does not wait forever
C37_AtMostFiveInFlight ==
  /\ [](/\ Cardinality(RequestsInFlight) <= 5
        /\ semaphore = Cardinality(RequestsInFlight))
  /\ \A r \in Requests : (reqPc[r] = "select") ~> (reqPc[r] # "select")

\* C37 witness: five requests are in flight and one more call waits for a
\* slot
C37_Witness ==
  /\ Cardinality(RequestsInFlight) = 5
  /\ \E r \in Requests : reqPc[r] = "select"
\* ---------------------------------------------- the retries of an embedding
\* config.RetryDelay, in seconds
RetryDelay == 3

\* faulty variant of backoffDelay: the same delay before every attempt
backoffDelay_Constant(attempt) == RetryDelay

\* line 201: the delay after a failed attempt
backoffDelay(attempt) == RetryDelay * attempt

\* BatchGenerateNewsEmbeddings is called on a service configured with n
\* attempts: one goroutine per text enters GenerateNewsEmbedding (the texts
\* are not empty) and reaches the loop with attempt = 1
Batch_Call(n) ==
  /\ \A i \in Texts : embedItem[i].pc = "idle"
  /\ maxRetries' = n
  /\ embedItem' = [i \in Texts |->
                     [embedItem[i] EXCEPT !.pc = "loop", !.attempt = 1]]
  /\ UNCHANGED << closePc, embedVars, mainVars, stageVars, fanVars, scrape >>

\* lines 195-219 and 220-226: one turn of the loop. Past the last attempt
\* the loop is left and the item fails if err is set (with no attempt made,
\* err is nil and the nil embedding is returned). Otherwise
\* makeEmbeddingRequest is called: it makes a request that succeeds or
\* fails, or, with the context done, it may return the context's error
\* without a request. A success leaves the loop; a failure before the last
\* attempt enters the wait of backoffDelay(attempt)
Item_Attempt(i) ==
  LET it == embedItem[i]
  IN /\ it.pc = "loop"
     /\ IF it.attempt > maxRetries
        THEN embedItem' = [embedItem EXCEPT ![i].pc =
                             IF it.failures > 0 THEN "failed" ELSE "ok"]
        ELSE \E outcome \in {"ok", "error"} \cup
                            (IF ctxDone THEN {"no_slot"} ELSE {}) :
               embedItem' = [embedItem EXCEPT ![i] =
                 IF outcome = "ok"
                 THEN [it EXCEPT !.pc = "ok", !.requests = @ + 1,
                                 !.successes = @ + 1]
                 ELSE [it EXCEPT
                         !.requests = IF outcome = "error" THEN @ + 1 ELSE @,
                         !.failures = @ + 1,
                         !.pc = IF it.attempt < maxRetries THEN "wait"
                                ELSE "loop",
                         !.attempt = IF it.attempt < maxRetries THEN @
                                     ELSE @ + 1,
                         !.waits = IF it.attempt < maxRetries
                                   THEN Append(@, backoffDelay(it.attempt))
                                   ELSE @]]
     /\ UNCHANGED << maxRetries, closePc, embedVars, mainVars, stageVars,
                     fanVars, scrape >>

\* lines 210-212: the delay elapses and the next attempt starts
Item_WaitElapsed(i) ==
  /\ embedItem[i].pc = "wait"
  /\ embedItem' = [embedItem EXCEPT ![i].pc = "loop", ![i].attempt = @ + 1]
  /\ UNCHANGED << maxRetries, closePc, embedVars, mainVars, stageVars,
                  fanVars, scrape >>

\* lines 213-214: the context is done during the wait; the item fails with
\* EMBEDDING_TIMEOUT
Item_WaitCancelled(i) ==
  /\ embedItem[i].pc = "wait"
  /\ ctxDone
  /\ embedItem' = [embedItem EXCEPT ![i].pc = "timeout"]
  /\ UNCHANGED << maxRetries, closePc, embedVars, mainVars, stageVars,
                  fanVars, scrape >>

NextRetry ==
  \/ \E n \in 0..MaxAttempts : Batch_Call(n)
  \/ \E i \in Texts : Item_Attempt(i)
  \/ \E i \in Texts : Item_WaitElapsed(i)
  \/ \E i \in Texts : Item_WaitCancelled(i)
  \/ Request_CtxCancel

InitRetry == NoSubmission /\ StageIdle /\ FanIdle

SpecRetry == InitRetry /\ [][NextRetry]_vars

\* C38: for each item of a batch at most N = config.MaxRetries requests are
\* made, no request follows a success, the k-th wait is k times the base
\* delay, and the item is reported failed only after N failed attempts or
\* when the context is done during a wait
C38_RetryPolicy ==
  /\ [](\A i \in Texts :
          LET it == embedItem[i]
          IN /\ it.requests <= maxRetries
             /\ it.successes <= 1
             /\ it.successes = 1 => it.pc = "ok"
             /\ \A k \in DOMAIN it.waits : it.waits[k] = k * RetryDelay)
  /\ [][\A i \in Texts :
          /\ embedItem[i].pc = "ok" => embedItem'[i] = embedItem[i]
          /\ (embedItem'[i].pc = "failed" /\ embedItem[i].pc # "failed") =>
               embedItem[i].failures = maxRetries
          /\ (embedItem'[i].pc = "timeout" /\ embedItem[i].pc # "timeout") =>
               (embedItem[i].pc = "wait" /\ ctxDone)]_vars

\* C38 witness: with three attempts configured, an item failed after three
\* failed attempts and waits of one and two base delays, and another
\* succeeded at its second attempt
C38_Witness ==
  /\ maxRetries = 3
  /\ \E i \in Texts :
       /\ embedItem[i].pc = "failed" /\ embedItem[i].failures = 3
       /\ embedItem[i].waits = << RetryDelay, 2 * RetryDelay >>
  /\ \E i \in Texts :
       /\ embedItem[i].pc = "ok" /\ embedItem[i].requests = 2
\* ---------------------------------------------------------- the batch scrape
\* line 493: the concurrency of a request that states none
DefaultConcurrency == 3

\* lines 470-564: ScrapeMultipleURLs is called with the URLs (distinct, not
\* empty) and a concurrency, 0 standing for none stated; the result starts
\* with empty lists, and one goroutine per URL reaches the select
Scrape_Call(maxConcurrency) ==
  /\ \A u \in URLs : scrape.pc[u] = "idle"
  /\ scrape' = [scrape EXCEPT
                  !.pc = [u \in URLs |-> "select"],
                  !.concurrency = IF maxConcurrency = 0
                                  THEN DefaultConcurrency
                                  ELSE maxConcurrency]
  /\ UNCHANGED << closePc, embedVars, retryVars, mainVars, stageVars,
                  fanVars >>

\* lines 526-527: the goroutine gets a slot
Scrape_Acquire(u) ==
  /\ scrape.pc[u] = "select"
  /\ scrape.tokens < scrape.concurrency
  /\ scrape' = [scrape EXCEPT !.pc[u] = "scraping", !.tokens = @ + 1]
  /\ UNCHANGED << closePc, embedVars, retryVars, mainVars, stageVars,
                  fanVars >>

\* lines 528-529: the context is done while the goroutine waits for a slot;
\* it returns, and the deferred function (no panic) only calls wg.Done
Scrape_Skipped(u) ==
  /\ scrape.pc[u] = "select"
  /\ ctxDone
  /\ scrape' = [scrape EXCEPT !.pc[u] = "done"]
  /\ UNCHANGED << closePc, embedVars, retryVars, mainVars, stageVars,
                  fanVars >>

\* lines 537-562 and 506-521: ScrapeURL returns content that succeeded,
\* content that failed or an error, or nil, or it panics; under the mutex the
\* URL is appended to SuccessfulScrapes in the first case and to
\* FailedScrapes in the others; the slot is released and wg.Done called
Scrape_Finish(u) ==
  /\ scrape.pc[u] = "scraping"
  /\ \E outcome \in {"success", "failure", "nil", "panic"} :
       scrape' = [scrape EXCEPT
                    !.pc[u] = "done",
                    !.tokens = @ - 1,
                    !.successful = IF outcome = "success"
                                   THEN @ \cup {u} ELSE @,
                    !.failed = IF outcome = "success"
                               THEN @ ELSE @ \cup {u}]
  /\ UNCHANGED << closePc, embedVars, retryVars, mainVars, stageVars,
                  fanVars >>

\* lines 566-575: wg.Wait returns when every goroutine is done, and the
\* result is returned
Scrape_Return ==
  /\ ~scrape.returned
  /\ \A u \in URLs : scrape.pc[u] = "done"
  /\ scrape' = [scrape EXCEPT !.returned = TRUE]
  /\ UNCHANGED << closePc, embedVars, retryVars, mainVars, stageVars,
                  fanVars >>

NextScrape ==
  \/ \E c \in 0..DefaultConcurrency : Scrape_Call(c)
  \/ \E u \in URLs : Scrape_Acquire(u)
  \/ \E u \in URLs : Scrape_Skipped(u)
  \/ \E u \in URLs : Scrape_Finish(u)
  \/ Scrape_Return
  \/ Request_CtxCancel

InitScrape == NoSubmission /\ StageIdle /\ FanIdle

SpecScrape == InitScrape /\ [][NextScrape]_vars

\* C39: when the batch scrape has returned, every requested URL is in
\* exactly one of the successful and the failed list, also when the context
\* was cancelled while URLs waited for a slot
C39_EveryURLInExactlyOneList ==
  scrape.returned =>
    /\ scrape.successful \cap scrape.failed = {}
    /\ scrape.successful \cup scrape.failed = URLs
====
